---- MODULE Spec2Model ----
(***************************************************************************)
(* Model of the AnalyzeJD analysis pipeline (src/analyzejd/app):           *)
(*   signal extractors, company registry, provider adapter, quick pass,    *)
(*   decision engine and deep pass.                                        *)
(*                                                                         *)
(* Python strings are TLA+ strings; Len, SubSeq and \o act on them         *)
(* character by character, so substring tests, lower-casing and joins are  *)
(* computed as the code computes them.                                     *)
(* Floats are fixed-point integers: confidence components are hundredths   *)
(* (0.85 is 85), the weighted sum is ten-thousandths.                      *)
(* None is written "" where every use in the code is a truthiness test.    *)
(***************************************************************************)
EXTENDS Integers, Sequences, FiniteSets, TLC

VARIABLES
    pc,             \* position of the POST /analyze handler
    jd_text,        \* payload["job_description"]
    extracted,      \* run_quick_pass's locals risk_signals and company_name
    provider_outcome, \* what the environment did to the adapter's call
    ai_analysis,    \* dict returned by analyze_jd_with_openai
    quick,          \* QuickPassResult
    final,          \* FinalAnalysisResponse
    db,             \* stored analyses (crud.create_analysis)
    served,         \* requests received so far
    provider_calls, \* adapter invocations / outbound requests of this analysis
    fn_in,          \* arguments of the function under test (function specs)
    fn_out,         \* its result
    company_cache,  \* utils/company_cache.py: _company_cache
    classify,       \* the classify_company calls in progress, by caller
    gemini_log,     \* names classify_company_with_gemini was called with
    classify_count, \* classify_company calls made so far
    router          \* LLMRouter: the keys read at import and the analyze_jd call

vars == <<pc, jd_text, extracted, provider_outcome, ai_analysis, quick, final, db, served,
          provider_calls, fn_in, fn_out, company_cache, classify, gemini_log,
          classify_count, router>>

-----------------------------------------------------------------------------
(* Python str primitives *)

UpperAlpha == "ABCDEFGHIJKLMNOPQRSTUVWXYZ"
LowerAlpha == "abcdefghijklmnopqrstuvwxyz"
Digits == "0123456789"

\* s[a-1:b], clamped to the string as Python slices are
Slice(s, a, b) ==
    LET lo == IF a < 1 THEN 1 ELSE a
        hi == IF b > Len(s) THEN Len(s) ELSE b
    IN  IF lo > hi THEN "" ELSE SubSeq(s, lo, hi)

Chr(s, i) == Slice(s, i, i)

\* sub in s
In(sub, s) ==
    \E i \in 1..(Len(s) - Len(sub) + 1) : SubSeq(s, i, i + Len(sub) - 1) = sub

IndexIn(alphabet, c) ==
    IF In(c, alphabet)
    THEN CHOOSE i \in 1..Len(alphabet) : Chr(alphabet, i) = c
    ELSE 0

IsUpper(c) == Len(c) = 1 /\ In(c, UpperAlpha)
IsLower(c) == Len(c) = 1 /\ In(c, LowerAlpha)
IsDigit(c) == Len(c) = 1 /\ In(c, Digits)
IsAlpha(c) == IsUpper(c) \/ IsLower(c)
\* regex \w and \s
IsWord(c) == IsAlpha(c) \/ IsDigit(c) \/ c = "_"
IsSpace(c) == c = " " \/ c = "\t" \/ c = "\n" \/ c = "\r"

LowerChar(c) == IF IsUpper(c) THEN Chr(LowerAlpha, IndexIn(UpperAlpha, c)) ELSE c
UpperChar(c) == IF IsLower(c) THEN Chr(UpperAlpha, IndexIn(LowerAlpha, c)) ELSE c

RECURSIVE LowerFrom(_, _)
LowerFrom(s, i) ==
    IF i > Len(s) THEN "" ELSE LowerChar(Chr(s, i)) \o LowerFrom(s, i + 1)

\* str.lower()
lower(s) == LowerFrom(s, 1)

RECURSIVE UpperFrom(_, _)
UpperFrom(s, i) ==
    IF i > Len(s) THEN "" ELSE UpperChar(Chr(s, i)) \o UpperFrom(s, i + 1)

\* str.upper()
upper(s) == UpperFrom(s, 1)

RECURSIVE TitleFrom(_, _)
TitleFrom(s, i) ==
    IF i > Len(s) THEN ""
    ELSE (IF i > 1 /\ IsAlpha(Chr(s, i - 1))
          THEN LowerChar(Chr(s, i))
          ELSE UpperChar(Chr(s, i))) \o TitleFrom(s, i + 1)

\* str.title(): a letter is upper-cased after a non-letter, lower-cased after a letter
title(s) == TitleFrom(s, 1)

\* str.strip()
strip(s) ==
    LET keep == {i \in 1..Len(s) : ~IsSpace(Chr(s, i))}
    IN  IF keep = {} THEN ""
        ELSE SubSeq(s, CHOOSE i \in keep : \A j \in keep : i <= j,
                       CHOOSE i \in keep : \A j \in keep : i >= j)

RECURSIVE JoinFrom(_, _, _)
JoinFrom(sep, list, i) ==
    IF i > Len(list) THEN ""
    ELSE IF i = Len(list) THEN list[i]
    ELSE list[i] \o sep \o JoinFrom(sep, list, i + 1)

\* sep.join(list)
join(sep, list) == JoinFrom(sep, list, 1)

\* any(kw in s for kw in kws)
AnyIn(kws, s) == \E k \in 1..Len(kws) : In(kws[k], s)

\* regex \b between s[k] and s[k+1] (k = 0 is the start, k = Len(s) the end)
WordAt(s, k) == k >= 1 /\ k <= Len(s) /\ IsWord(Chr(s, k))
Boundary(s, k) == WordAt(s, k) /= WordAt(s, k + 1)

\* re.search(rf"\b{re.escape(word)}\b", s) finds a match
SearchWholeWord(word, s) ==
    \E i \in 1..(Len(s) - Len(word) + 1) :
        /\ SubSeq(s, i, i + Len(word) - 1) = word
        /\ Boundary(s, i - 1)
        /\ Boundary(s, i + Len(word) - 1)

Range(f) == {f[i] : i \in DOMAIN f}

\* a local variable: value is computed once, Body reads it
Local(value, Body(_)) == CHOOSE r \in {Body(x) : x \in {value}} : TRUE

-----------------------------------------------------------------------------
(* JSON values of the provider's object (json.loads): tagged, so that a      *)
(* missing key, null, or a value of the wrong type can be told apart.        *)

JNull == [t |-> "null"]
JStr(s) == [t |-> "str", v |-> s]
\* v in hundredths: JNum(75) is 0.75
JNum(n) == [t |-> "num", v |-> n]
\* v: tuple of JSON values
JList(l) == [t |-> "list", v |-> l]
\* v: record key |-> JSON value; a key that is absent is not in DOMAIN v
JObj(r) == [t |-> "obj", v |-> r]
\* {}: the default of the .get() calls
EmptyDict == [t |-> "obj", v |-> <<>>]

IsStr(j) == j.t = "str"
IsNum(j) == j.t = "num"
IsList(j) == j.t = "list"
IsDict(j) == j.t = "obj"

\* bool(j)
Truthy(j) ==
    CASE j.t = "null" -> FALSE
      [] j.t = "str" -> j.v /= ""
      [] j.t = "num" -> j.v /= 0
      [] j.t = "list" -> Len(j.v) > 0
      [] j.t = "obj" -> DOMAIN j.v /= {}

\* d.get(key, default), d a dict
Get(d, key, default) == IF key \in DOMAIN d.v THEN d.v[key] ELSE default

\* a or b
Or(a, b) == IF Truthy(a) THEN a ELSE b

\* a list of str
IsStrList(j) == IsList(j) /\ \A i \in 1..Len(j.v) : IsStr(j.v[i])
\* the Python list of str as a tuple of strings
StrList(j) == [i \in 1..Len(j.v) |-> j.v[i].v]

-----------------------------------------------------------------------------
(* app/utils/text_signals.py *)

RISK_KEYWORDS == <<
    <<"bond", "service agreement", "liquidated damages">>,
    <<"cheque", "bank guarantee", "training cost">>,
    <<"rotational shifts", "night shift", "6 days">> >>

\* Variant of the detector that looks for the keywords in the text as written
detect_risk_signals_as_written(text) ==
    {RISK_KEYWORDS[g][k] : <<g, k>> \in
        {p \in (1..Len(RISK_KEYWORDS)) \X (1..3) : In(RISK_KEYWORDS[p[1]][p[2]], text)}}

\* The keywords found; the code returns list(set(found)), a list of these in
\* an order the string hashing decides, and its one caller builds a set of it.
detect_risk_signals(text) ==
    Local(lower(text), LAMBDA text_lower :
        {RISK_KEYWORDS[g][k] : <<g, k>> \in
            {p \in (1..Len(RISK_KEYWORDS)) \X (1..3) :
                In(RISK_KEYWORDS[p[1]][p[2]], text_lower)}})

\* list(set(..)): every order of the elements is a possible result
Perms(S) ==
    {f \in [1..Cardinality(S) -> S] : \A i, j \in 1..Cardinality(S) : f[i] = f[j] => i = j}

-----------------------------------------------------------------------------
(* app/utils/company_extractor.py *)

\* COMPANY_DATABASE, in declared order (dict iteration order is insertion order)
COMPANY_DATABASE == <<
    [canonical |-> "meta", aliases |-> <<"meta", "meta platforms", "facebook">>, type |-> "Product", tier |-> "FAANGM"],
    [canonical |-> "google", aliases |-> <<"google", "alphabet", "google llc">>, type |-> "Product", tier |-> "FAANGM"],
    [canonical |-> "amazon", aliases |-> <<"amazon", "amazon.com", "amazon india">>, type |-> "Product", tier |-> "FAANGM"],
    [canonical |-> "microsoft", aliases |-> <<"microsoft", "microsoft india">>, type |-> "Product", tier |-> "FAANGM"],
    [canonical |-> "apple", aliases |-> <<"apple", "apple india">>, type |-> "Product", tier |-> "FAANGM"],
    [canonical |-> "netflix", aliases |-> <<"netflix">>, type |-> "Product", tier |-> "FAANGM"],
    [canonical |-> "qualcomm", aliases |-> <<"qualcomm", "qualcomm india", "qualcomm india private limited">>, type |-> "Product", tier |-> "Tier-1"],
    [canonical |-> "intel", aliases |-> <<"intel", "intel india", "intel corporation">>, type |-> "Product", tier |-> "Tier-1"],
    [canonical |-> "nvidia", aliases |-> <<"nvidia", "nvidia india", "nvidia corporation">>, type |-> "Product", tier |-> "Tier-1"],
    [canonical |-> "amd", aliases |-> <<"amd", "advanced micro devices">>, type |-> "Product", tier |-> "Tier-1"],
    [canonical |-> "broadcom", aliases |-> <<"broadcom", "broadcom india">>, type |-> "Product", tier |-> "Tier-1"],
    [canonical |-> "wipro", aliases |-> <<"wipro", "wipro limited", "wipro technologies">>, type |-> "Service", tier |-> "Tier-1"],
    [canonical |-> "tcs", aliases |-> <<"tcs", "tata consultancy services", "tata consultancy">>, type |-> "Service", tier |-> "Tier-1"],
    [canonical |-> "infosys", aliases |-> <<"infosys", "infosys limited", "infosys technologies">>, type |-> "Service", tier |-> "Tier-1"],
    [canonical |-> "hcl", aliases |-> <<"hcl", "hcl technologies", "hcltech">>, type |-> "Service", tier |-> "Tier-1"],
    [canonical |-> "tech mahindra", aliases |-> <<"tech mahindra", "techmahindra">>, type |-> "Service", tier |-> "Tier-1"],
    [canonical |-> "cognizant", aliases |-> <<"cognizant", "cognizant technology solutions", "cts">>, type |-> "Service", tier |-> "Tier-1"],
    [canonical |-> "capgemini", aliases |-> <<"capgemini", "cap gemini">>, type |-> "Service", tier |-> "Tier-1"],
    [canonical |-> "accenture", aliases |-> <<"accenture", "accenture india">>, type |-> "Service", tier |-> "Tier-1"],
    [canonical |-> "ltimindtree", aliases |-> <<"ltimindtree", "lti", "mindtree", "l&t infotech">>, type |-> "Service", tier |-> "Tier-2"],
    [canonical |-> "mphasis", aliases |-> <<"mphasis">>, type |-> "Service", tier |-> "Tier-2"],
    [canonical |-> "persistent", aliases |-> <<"persistent", "persistent systems">>, type |-> "Service", tier |-> "Tier-2"],
    [canonical |-> "hexaware", aliases |-> <<"hexaware", "hexaware technologies">>, type |-> "Service", tier |-> "Tier-2"],
    [canonical |-> "cyient", aliases |-> <<"cyient", "cyient limited">>, type |-> "Service", tier |-> "Tier-2"],
    [canonical |-> "zensar", aliases |-> <<"zensar", "zensar technologies">>, type |-> "Service", tier |-> "Tier-2"],
    [canonical |-> "flipkart", aliases |-> <<"flipkart">>, type |-> "Product", tier |-> "Tier-1"],
    [canonical |-> "swiggy", aliases |-> <<"swiggy">>, type |-> "Product", tier |-> "Tier-1"],
    [canonical |-> "zomato", aliases |-> <<"zomato">>, type |-> "Product", tier |-> "Tier-1"],
    [canonical |-> "razorpay", aliases |-> <<"razorpay">>, type |-> "Product", tier |-> "Tier-1"],
    [canonical |-> "phonepe", aliases |-> <<"phonepe", "phone pe">>, type |-> "Product", tier |-> "Tier-1"],
    [canonical |-> "paytm", aliases |-> <<"paytm", "one97">>, type |-> "Product", tier |-> "Tier-1"],
    [canonical |-> "zerodha", aliases |-> <<"zerodha">>, type |-> "Product", tier |-> "Tier-1"],
    [canonical |-> "cred", aliases |-> <<"cred">>, type |-> "Product", tier |-> "Tier-1"],
    [canonical |-> "meesho", aliases |-> <<"meesho">>, type |-> "Product", tier |-> "Tier-1"],
    [canonical |-> "goldman sachs", aliases |-> <<"goldman sachs", "gs", "goldman">>, type |-> "Captive", tier |-> "Tier-1"],
    [canonical |-> "jp morgan", aliases |-> <<"jp morgan", "jpmorgan", "chase", "jpm">>, type |-> "Captive", tier |-> "Tier-1"],
    [canonical |-> "morgan stanley", aliases |-> <<"morgan stanley">>, type |-> "Captive", tier |-> "Tier-1"],
    [canonical |-> "deutsche bank", aliases |-> <<"deutsche bank", "db">>, type |-> "Captive", tier |-> "Tier-1"],
    [canonical |-> "barclays", aliases |-> <<"barclays">>, type |-> "Captive", tier |-> "Tier-1"],
    [canonical |-> "adobe", aliases |-> <<"adobe", "adobe systems">>, type |-> "Product", tier |-> "Tier-1"],
    [canonical |-> "salesforce", aliases |-> <<"salesforce">>, type |-> "Product", tier |-> "Tier-1"],
    [canonical |-> "oracle", aliases |-> <<"oracle">>, type |-> "Product", tier |-> "Tier-1"],
    [canonical |-> "sap", aliases |-> <<"sap", "sap labs">>, type |-> "Product", tier |-> "Tier-1"],
    [canonical |-> "atlassian", aliases |-> <<"atlassian">>, type |-> "Product", tier |-> "Tier-1"],
    [canonical |-> "uber", aliases |-> <<"uber">>, type |-> "Product", tier |-> "Tier-1"],
    [canonical |-> "linkedin", aliases |-> <<"linkedin">>, type |-> "Product", tier |-> "Tier-1"]
>>

NumCompanies == Len(COMPANY_DATABASE)

MinOf(S) == CHOOSE x \in S : \A y \in S : x <= y
MaxOf(S) == CHOOSE x \in S : \A y \in S : x >= y

\* [a-zA-Z0-9\&\-. ]
NameClass(c) == IsAlpha(c) \/ IsDigit(c) \/ c = "&" \/ c = "-" \/ c = "." \/ c = " "

\* first index >= p that is not whitespace (Len(s) + 1 when there is none)
SkipSpaces(s, p) ==
    LET ns == {k \in p..Len(s) : ~IsSpace(Chr(s, k))}
    IN  IF ns = {} THEN Len(s) + 1 ELSE MinOf(ns)

\* last index of the greedy run [a-zA-Z0-9\&\-. ]* that starts at g + 1
ClassRunEnd(s, g) ==
    LET stop == {k \in (g + 1)..Len(s) : ~NameClass(Chr(s, k))}
    IN  IF stop = {} THEN Len(s) ELSE MinOf(stop) - 1

\* start of the group of \bKW\s+([A-Z][a-zA-Z0-9\&\-. ]+) matched with KW at i, or 0
GroupAfter(s, kw, i) ==
    LET g == SkipSpaces(s, i + Len(kw))
    IN  IF /\ Slice(s, i, i + Len(kw) - 1) = kw
           /\ Boundary(s, i - 1)
           /\ g > i + Len(kw)
           /\ g + 1 <= Len(s)
           /\ IsUpper(Chr(s, g))
           /\ NameClass(Chr(s, g + 1))
        THEN g ELSE 0

\* re.search(r"\bKW\s+([A-Z][a-zA-Z0-9\&\-. ]+)", s): group(1).strip(), "" for no match
SearchKeywordThenName(s, kw) ==
    LET starts == {i \in 1..Len(s) : GroupAfter(s, kw, i) > 0}
    IN  IF starts = {} THEN ""
        ELSE LET g == GroupAfter(s, kw, MinOf(starts))
             IN  strip(Slice(s, g, ClassRunEnd(s, g)))

\* \s+is\s+KW\b matches s from index p on
TailMatches(s, kw, p) ==
    LET q == SkipSpaces(s, p)
        r == SkipSpaces(s, q + 2)
    IN  /\ q > p
        /\ Slice(s, q, q + 1) = "is"
        /\ r > q + 2
        /\ Slice(s, r, r + Len(kw) - 1) = kw
        /\ Boundary(s, r + Len(kw) - 1)

\* ends e of a group starting at g for which the rest of the pattern matches
GroupEnds(s, kw, g) ==
    IF Boundary(s, g - 1) /\ IsUpper(Chr(s, g))
    THEN {e \in (g + 1)..ClassRunEnd(s, g) : TailMatches(s, kw, e + 1)}
    ELSE {}

\* re.search(r"\b([A-Z][a-zA-Z0-9\&\-. ]+)\s+is\s+KW\b", s): leftmost start,
\* longest group (greedy), group(1).strip(); "" for no match
SearchNameThenKeyword(s, kw) ==
    LET starts == {g \in 1..Len(s) : GroupEnds(s, kw, g) /= {}}
    IN  IF starts = {} THEN ""
        ELSE LET g == MinOf(starts)
             IN  strip(Slice(s, g, MaxOf(GroupEnds(s, kw, g))))

\* Variant of phase 1 that looks for the aliases as substrings (no \b)
KnownCompaniesInAsSubstring(text) ==
    {e \in 1..NumCompanies :
        \E a \in 1..Len(COMPANY_DATABASE[e].aliases) :
            In(lower(COMPANY_DATABASE[e].aliases[a]), text)}

\* phase 1: indices of the registry entries with an alias in the text
KnownCompaniesIn(text) ==
    {e \in 1..NumCompanies :
        \E a \in 1..Len(COMPANY_DATABASE[e].aliases) :
            SearchWholeWord(lower(COMPANY_DATABASE[e].aliases[a]), text)}

\* None is ""
extract_company_name(jd) ==
    Local(KnownCompaniesIn(lower(jd)), LAMBDA known :
        IF known /= {} THEN title(COMPANY_DATABASE[MinOf(known)].canonical)
        ELSE Local(SearchKeywordThenName(jd, "About"), LAMBDA about :
        IF about /= "" THEN about
        ELSE Local(SearchNameThenKeyword(jd, "seeking"), LAMBDA seeking :
        IF seeking /= "" THEN seeking
        ELSE Local(SearchKeywordThenName(jd, "join"), LAMBDA joinx :
        IF joinx /= "" THEN joinx
        ELSE SearchNameThenKeyword(jd, "hiring")))))

\* entries whose alias equals the name or contains it
AliasHits(name_lower) ==
    {e \in 1..NumCompanies :
        \E a \in 1..Len(COMPANY_DATABASE[e].aliases) :
            \/ lower(COMPANY_DATABASE[e].aliases[a]) = name_lower
            \/ In(name_lower, lower(COMPANY_DATABASE[e].aliases[a]))}

\* Variant of the lookup that compares the name as written (no .lower())
LookupEntryCaseSensitive(company_name) ==
    LET direct == {e \in 1..NumCompanies : COMPANY_DATABASE[e].canonical = company_name}
        hits == AliasHits(company_name)
    IN  IF company_name = "" THEN 0
        ELSE IF direct /= {} THEN MinOf(direct)
        ELSE IF hits /= {} THEN MinOf(hits)
        ELSE 0

\* index of the registry entry the lookup returns, 0 for None
LookupEntry(company_name) ==
    LET name_lower == lower(company_name)
        direct == {e \in 1..NumCompanies : COMPANY_DATABASE[e].canonical = name_lower}
        hits == AliasHits(name_lower)
    IN  IF company_name = "" THEN 0
        ELSE IF direct /= {} THEN MinOf(direct)
        ELSE IF hits /= {} THEN MinOf(hits)
        ELSE 0

\* the dict {"type", "tier"} or None
get_company_classification(company_name) ==
    LET e == LookupEntry(company_name)
    IN  IF e = 0 THEN JNull
        ELSE [type |-> COMPANY_DATABASE[e].type, tier |-> COMPANY_DATABASE[e].tier]

\* Variant of the override in which the registry only fills in for a provider
\* that answered "Unknown"
override_when_provider_unknown(company_name, llm_type, llm_tier) ==
    LET known == get_company_classification(company_name)
    IN  IF known /= JNull /\ llm_type = JStr("Unknown")
        THEN <<JStr(known.type), JStr(known.tier)>>
        ELSE <<llm_type, llm_tier>>

\* llm_type, llm_tier: JSON values of the provider; the result is a pair of JSON values
override_company_classification(company_name, llm_type, llm_tier) ==
    LET known == get_company_classification(company_name)
    IN  IF known /= JNull
        THEN <<JStr(known.type), JStr(known.tier)>>
        ELSE <<llm_type, llm_tier>>

-----------------------------------------------------------------------------
(* app/services/decision_interpreter.py                                      *)
(* The reasoning and what_to_do_instead texts are fixed per rule; they are   *)
(* written here by their opening words.                                      *)

\* Variant that rates every cautioned role as high risk
DecisionCautionRatedHigh(rec, risk, why, instead) ==
    [recommendation |-> rec,
     risk_level |-> IF rec = "Apply with Caution" THEN "High" ELSE risk,
     reasoning |-> why, what_to_do_instead |-> instead]

Decision(rec, risk, why, instead) ==
    [recommendation |-> rec, risk_level |-> risk,
     reasoning |-> why, what_to_do_instead |-> instead]

\* Variant: the three rules of the older module services/decision_interpretor.py
interpret_decision_old(company_type, risks, required_experience) ==
    IF In("8-10", required_experience) /\ company_type = "Service"
    THEN Decision("Skip", "High",
                  "This role targets senior professionals in service-based delivery",
                  "Focus on product companies or startups")
    ELSE IF company_type = "Service" /\ Len(risks) > 0
    THEN Decision("Apply with Caution", "Medium",
                  "Service-based roles often involve limited ownership",
                  "Apply selectively and prioritize product-focused teams.")
    ELSE Decision("Apply", "Low",
                  "This role aligns well with early-career engineering growth.",
                  "Prepare strong fundamentals and project-based resume.")

\* Variant: the rules in the order the docstring lists them, "Service company
\* with any risks" ahead of "Senior role (any company)"
interpret_decision_docstring_order(company_type, risks, required_experience) ==
    Local(lower(required_experience), LAMBDA exp_lower :
    Local(join(" ", [i \in 1..Len(risks) |-> lower(risks[i])]), LAMBDA joined :
        IF /\ AnyIn(<<"8+", "8-10", "lead", "principal">>, exp_lower)
           /\ company_type = "Service"
        THEN Decision("Skip", "High",
                      "This role targets senior professionals in service-based delivery.",
                      "Focus on fresher programs at product companies")
        ELSE IF AnyIn(<<"bond", "service agreement", "liquidated damages",
                        "cheque", "bank guarantee", "training cost">>, joined)
        THEN Decision("Skip", "High",
                      "This role has concerning terms around bonds or upfront payments.",
                      "Look for companies that invest in retention")
        ELSE IF company_type = "Service" /\ Len(risks) > 0
        THEN Decision("Apply with Caution", "Medium",
                      "Service-based roles often involve project-based work",
                      "During interviews, ask about: the specific project you'll join")
        ELSE IF AnyIn(<<"5-8", "5+", "senior">>, exp_lower)
        THEN Decision("Skip", "High",
                      "This role requires 5+ years of experience.",
                      "Apply to entry-level or associate positions.")
        ELSE IF /\ company_type = "Startup"
                /\ \/ Len(risks) > 0
                   \/ In("unclear", exp_lower)
                   \/ In("not specified", exp_lower)
        THEN Decision("Apply with Caution", "Medium",
                      "Startups can offer great learning but also carry risks",
                      "Research the startup's funding status")
        ELSE IF company_type = "Service"
        THEN Decision("Apply with Caution", "Medium",
                      "Service companies can provide good starting experience",
                      "If you join, try to get into product-oriented teams")
        ELSE IF company_type = "Product"
        THEN Decision("Apply", "Low",
                      "Product companies generally offer better ownership and technical depth.",
                      "Prepare a strong resume highlighting projects")
        ELSE IF company_type = "Captive"
        THEN Decision("Apply", "Low",
                      "Captive centers of established companies often offer stability",
                      "Prepare by understanding the parent company's domain.")
        ELSE Decision("Apply", "Low",
                      "Based on the available information, this role appears suitable",
                      "Prepare a strong resume and practice fundamentals.")))

\* risks: tuple of strings, in list order
interpret_decision(company_type, risks, required_experience) ==
    Local(lower(required_experience), LAMBDA exp_lower :
    Local([i \in 1..Len(risks) |-> lower(risks[i])], LAMBDA risks_lower :
    LET joined == join(" ", risks_lower)
        bond_risks == AnyIn(<<"bond", "service agreement", "liquidated damages">>, joined)
        payment_risks == AnyIn(<<"cheque", "bank guarantee", "training cost">>, joined)
    IN  IF /\ AnyIn(<<"8+", "8-10", "lead", "principal">>, exp_lower)
           /\ company_type = "Service"
        THEN Decision("Skip", "High",
                      "This role targets senior professionals in service-based delivery.",
                      "Focus on fresher programs at product companies")
        ELSE IF bond_risks \/ payment_risks
        THEN Decision("Skip", "High",
                      "This role has concerning terms around bonds or upfront payments.",
                      "Look for companies that invest in retention")
        ELSE IF AnyIn(<<"5-8", "5+", "senior">>, exp_lower)
        THEN Decision("Skip", "High",
                      "This role requires 5+ years of experience.",
                      "Apply to entry-level or associate positions.")
        ELSE IF company_type = "Service" /\ Len(risks) > 0
        THEN Decision("Apply with Caution", "Medium",
                      "Service-based roles often involve project-based work",
                      "During interviews, ask about: the specific project you'll join")
        ELSE IF /\ company_type = "Startup"
                /\ \/ Len(risks) > 0
                   \/ In("unclear", exp_lower)
                   \/ In("not specified", exp_lower)
        THEN Decision("Apply with Caution", "Medium",
                      "Startups can offer great learning but also carry risks",
                      "Research the startup's funding status")
        ELSE IF company_type = "Service"
        THEN Decision("Apply with Caution", "Medium",
                      "Service companies can provide good starting experience",
                      "If you join, try to get into product-oriented teams")
        ELSE IF company_type = "Product"
        THEN Decision("Apply", "Low",
                      "Product companies generally offer better ownership and technical depth.",
                      "Prepare a strong resume highlighting projects")
        ELSE IF company_type = "Captive"
        THEN Decision("Apply", "Low",
                      "Captive centers of established companies often offer stability",
                      "Prepare by understanding the parent company's domain.")
        ELSE Decision("Apply", "Low",
                      "Based on the available information, this role appears suitable",
                      "Prepare a strong resume and practice fundamentals.")))

-----------------------------------------------------------------------------
(* app/services/pass2_deep.py: experience *)

extract_experience_requirement(jd) ==
    Local(lower(jd), LAMBDA jd_lower :
        IF AnyIn(<<"fresher", "0-1", "0 - 1">>, jd_lower) THEN "0-1 Years (Fresher-friendly)"
        ELSE IF AnyIn(<<"1-2", "1 - 2", "0-2">>, jd_lower) THEN "1-2 Years (Early career)"
        ELSE IF AnyIn(<<"2-4", "2 - 4", "3-5">>, jd_lower) THEN "2-5 Years (Mid-level)"
        ELSE IF AnyIn(<<"5-8", "5-7", "6-8">>, jd_lower) THEN "5-8 Years (Senior)"
        ELSE IF AnyIn(<<"8-10", "10+", "8+">>, jd_lower) THEN "8+ Years (Lead/Principal)"
        ELSE "Not explicitly specified")

\* Variant without the Service default for an unspecified requirement
determine_fresher_alignment_no_service_default(required_exp, company_type) ==
    IF AnyIn(<<"Fresher", "0-1", "1-2">>, required_exp) THEN "Good"
    ELSE IF In("2-5", required_exp) THEN "Poor"
    ELSE IF AnyIn(<<"5-8", "8+", "Senior">>, required_exp) THEN "Poor"
    ELSE "Not Applicable"

\* Variant that compares the company type in any letter case
determine_fresher_alignment_any_case(required_exp, company_type) ==
    IF AnyIn(<<"Fresher", "0-1", "1-2">>, required_exp) THEN "Good"
    ELSE IF In("2-5", required_exp) THEN "Poor"
    ELSE IF AnyIn(<<"5-8", "8+", "Senior">>, required_exp) THEN "Poor"
    ELSE IF lower(company_type) = "service" THEN "Good"
    ELSE "Not Applicable"

determine_fresher_alignment(required_exp, company_type) ==
    IF AnyIn(<<"Fresher", "0-1", "1-2">>, required_exp) THEN "Good"
    ELSE IF In("2-5", required_exp) THEN "Poor"
    ELSE IF AnyIn(<<"5-8", "8+", "Senior">>, required_exp) THEN "Poor"
    ELSE IF company_type = "Service" THEN "Good"
    ELSE "Not Applicable"

-----------------------------------------------------------------------------
(* app/services/pass1_quick.py: confidence                                   *)
(* Scores are hundredths; role_clarity is the provider's number in           *)
(* hundredths and may lie outside 0..100.                                    *)

\* TIER_SCORES.get(company_tier, 0.4)
TierScore(company_tier) ==
    CASE company_tier = "FAANGM" -> 100
      [] company_tier = "Tier-1" -> 85
      [] company_tier = "Tier-2" -> 65
      [] company_tier = "Tier-3" -> 50
      [] OTHER -> 40

Max2(a, b) == IF a >= b THEN a ELSE b
Min2(a, b) == IF a <= b THEN a ELSE b

\* round(x / 10000, 2) in hundredths, ties to even; x >= 0
Round2(x) ==
    LET qt == x \div 100
        rm == x % 100
    IN  IF rm > 50 \/ (rm = 50 /\ qt % 2 = 1) THEN qt + 1 ELSE qt

\* Variant of the risk component without the 0.2 floor
RiskScoreNoFloor(n) == 100 - n * 15

\* max(0.2, 1.0 - len(risk_signals) * 0.15)
RiskScore(n) == Max2(20, 100 - n * 15)

\* min(1.0, max(0.0, role_clarity))
RoleClarityScore(role_clarity) == Min2(100, Max2(0, role_clarity))

\* company_name: "" for None or empty; risk_signals: tuple
calculate_confidence_score(company_name, company_type, company_tier, risk_signals, role_clarity) ==
    LET company_recognition == IF company_name /= "" THEN 100 ELSE 30
        risk_score == RiskScore(Len(risk_signals))
        role_clarity_score == RoleClarityScore(role_clarity)
        tier_score == TierScore(company_tier)
        confidence == company_recognition * 25 + risk_score * 30
                      + role_clarity_score * 25 + tier_score * 20
    IN  [confidence |-> Round2(confidence),
         breakdown |-> [company_recognition |-> company_recognition,
                        risk_signals |-> risk_score,
                        role_clarity |-> role_clarity_score,
                        company_tier |-> tier_score]]

-----------------------------------------------------------------------------
(* app/ai/openai_client.py: the provider adapter                             *)

\* d[key] = value on a dict
SetKey(d, key, value) ==
    JObj([k \in DOMAIN d.v \cup {key} |-> IF k = key THEN value ELSE d.v[k]])

\* Variant of the fallback object that is stamped like a provider answer
FallbackStampedAsProvider(reason) ==
    JObj([company_classification |->
              JObj([company_type |-> JStr("Unknown"), tier |-> JStr("Unknown"),
                    industry |-> JStr("Unknown")]),
          role_analysis |->
              JObj([clarity_score |-> JNum(50), seniority_level |-> JStr("Unknown"),
                    key_skills |-> JList(<<>>), red_flags |-> JList(<<>>)]),
          ats_optimized_bullets |->
              JList(<<JStr("Developed software solutions following industry best practices"),
                      JStr("Collaborated with teams to deliver quality products"),
                      JStr("Applied problem-solving skills to technical challenges")>>),
          candidate_insights |->
              JObj([what_they_discover |->
                        JStr("Unable to analyze. Research the company independently."),
                    growth_potential |-> JStr("Unknown"),
                    work_life_balance |-> JStr("Unknown"),
                    learning_opportunities |-> JStr("Unknown")]),
          risk_assessment |->
              JObj([risk_level |-> JStr("Unknown"),
                    concerns |-> JList(<<JStr("Analysis unavailable")>>),
                    positives |-> JList(<<>>)]),
          _meta |-> JObj([source |-> JStr("gemini"), model |-> JStr("gemini-1.5-flash")])])

\* reason: the provenance marker
_get_fallback_analysis(reason) ==
    JObj([company_classification |->
              JObj([company_type |-> JStr("Unknown"), tier |-> JStr("Unknown"),
                    industry |-> JStr("Unknown")]),
          role_analysis |->
              JObj([clarity_score |-> JNum(50), seniority_level |-> JStr("Unknown"),
                    key_skills |-> JList(<<>>), red_flags |-> JList(<<>>)]),
          ats_optimized_bullets |->
              JList(<<JStr("Developed software solutions following industry best practices"),
                      JStr("Collaborated with teams to deliver quality products"),
                      JStr("Applied problem-solving skills to technical challenges")>>),
          candidate_insights |->
              JObj([what_they_discover |->
                        JStr("Unable to analyze. Research the company independently."),
                    growth_potential |-> JStr("Unknown"),
                    work_life_balance |-> JStr("Unknown"),
                    learning_opportunities |-> JStr("Unknown")]),
          risk_assessment |->
              JObj([risk_level |-> JStr("Unknown"),
                    concerns |-> JList(<<JStr("Analysis unavailable")>>),
                    positives |-> JList(<<>>)]),
          _meta |-> JObj([source |-> JStr(reason), model |-> JNull])])

(* What the environment does to one adapter call:                            *)
(*   [kind |-> "no_api_key"]            OPENAI_API_KEY is not set            *)
(*   [kind |-> "raise", exc |-> name]   the request, raise_for_status, the   *)
(*                                      response drill-down or the debug     *)
(*                                      file write raises exception `name`   *)
(*   [kind |-> "bad_json"]              json.loads raises JSONDecodeError    *)
(*   [kind |-> "parsed", value |-> j]   json.loads returns j                 *)
\* USE_MOCK_MODE is False
analyze_jd_with_openai(outcome) ==
    CASE outcome.kind = "no_api_key" -> _get_fallback_analysis("no_api_key")
      [] outcome.kind = "raise" -> _get_fallback_analysis("error:" \o outcome.exc)
      [] outcome.kind = "bad_json" -> _get_fallback_analysis("json_parse_error")
      [] outcome.kind = "parsed" ->
            IF IsDict(outcome.value)
            THEN SetKey(outcome.value, "_meta",
                        JObj([source |-> JStr("gemini"), model |-> JStr("gemini-1.5-flash")]))
            \* result["_meta"] = .. on a list, str or number: TypeError, caught
            ELSE _get_fallback_analysis("error:TypeError")

\* the adapter sends a request exactly when the key is set
SendsRequest(outcome) == outcome.kind /= "no_api_key"

-----------------------------------------------------------------------------
(* app/services/pass1_quick.py: run_quick_pass                               *)
(* ai: the adapter's dict.  The emoji of the verdict texts are left out and  *)
(* the fixed sentences are written by their opening words.                   *)

generate_final_verdict(confidence_score, company_name, company_tier, risk_signals, what_they_discover) ==
    LET company_display == IF company_name /= "" THEN company_name ELSE "this company"
        verdict ==
            IF confidence_score >= 80
            THEN "Strong opportunity at " \o company_display \o ". "
                 \o (IF company_tier \in {"FAANGM", "Tier-1"}
                     THEN "This " \o company_tier \o " company offers solid career growth. "
                     ELSE "")
                 \o "The role is well-defined with clear expectations."
            ELSE IF confidence_score >= 60
            THEN "Proceed with caution for " \o company_display \o ". "
                 \o (IF Len(risk_signals) > 0
                     THEN "Noted concerns: "
                          \o join(", ", SubSeq(risk_signals, 1, Min2(2, Len(risk_signals)))) \o ". "
                     ELSE "")
                 \o "Research the team culture during interviews."
            ELSE "Multiple concerns detected for " \o company_display \o ". "
                 \o (IF Len(risk_signals) > 0
                     THEN "Red flags: "
                          \o join(", ", SubSeq(risk_signals, 1, Min2(3, Len(risk_signals)))) \o ". "
                     ELSE "")
                 \o "Consider carefully before applying."
        wisdom == IF Len(what_they_discover) > 100
                  THEN Slice(what_they_discover, 1, 100) \o "..."
                  ELSE what_they_discover
    IN  IF what_they_discover /= ""
        THEN verdict \o "\n\nInsider perspective: " \o wisdom
        ELSE verdict

\* ai_analysis.get(key, {})
Section(ai, key) == Get(ai, key, EmptyDict)

\* understanding.get("company", {}).get(key, "")
CompanyField(ai, key) ==
    Get(Get(Section(ai, "understanding"), "company", EmptyDict), key, JStr(""))

\* Variant that reads the nested full structure ahead of the flat explanations
ExplanationNestedFirst(ai, key, nested, nested_key, default) ==
    Or(Get(Section(ai, nested), nested_key, default),
       Get(Section(ai, "explanations"), key, default))

\* explanations_data.get(key, default) or <nested>.get(nested_key, default)
Explanation(ai, key, nested, nested_key, default) ==
    Or(Get(Section(ai, "explanations"), key, default),
       Get(Section(ai, nested), nested_key, default))

\* Variant of the name resolution that sets aside only the spelling "Unknown"
ResolveCompanyNameExactUnknown(company_name, ai) ==
    LET llm_company_name == CompanyField(ai, "name")
    IN  IF Truthy(llm_company_name) /\ llm_company_name.v /= "Unknown"
        THEN llm_company_name.v
        ELSE company_name

\* Variant of the name resolution that keeps the locally extracted name and
\* takes the provider's only when nothing was extracted
ResolveCompanyNameLocalFirst(company_name, ai) ==
    LET llm_company_name == CompanyField(ai, "name")
    IN  IF company_name /= "" THEN company_name
        ELSE IF Truthy(llm_company_name) /\ lower(llm_company_name.v) /= "unknown"
        THEN llm_company_name.v
        ELSE ""

\* lines 138-147: the provider's name unless empty or "unknown", else the one
\* extract_company_name found (line 132)
ResolveCompanyName(company_name, ai) ==
    LET llm_company_name == CompanyField(ai, "name")
    IN  IF Truthy(llm_company_name) /\ lower(llm_company_name.v) /= "unknown"
        THEN llm_company_name.v
        ELSE company_name

\* role_analysis.get("red_flags", [])
RedFlags(ai) == Get(Section(ai, "role_analysis"), "red_flags", JList(<<>>))

\* Variant of the merge that also folds in the provider's risk_assessment.concerns
AllRiskSetWithConcerns(risk_signals, ai) ==
    {JStr(r) : r \in risk_signals} \cup Range(RedFlags(ai).v)
        \cup Range(Get(Section(ai, "risk_assessment"), "concerns", JList(<<>>)).v)

\* set(risk_signals + ai_red_flags), as JSON values; risk_signals: what
\* detect_risk_signals found (line 131)
AllRiskSet(risk_signals, ai) ==
    {JStr(r) : r \in risk_signals} \cup Range(RedFlags(ai).v)

\* override_company_classification(company_name, llm_type, llm_tier) of line 208
Classification(company_name, ai) ==
    override_company_classification(
        company_name,
        Get(Section(ai, "company_classification"), "company_type", JStr("Unknown")),
        Get(Section(ai, "company_classification"), "tier", JStr("Unknown")))

\* role_analysis.get("clarity_score", 0.5)
RoleClarity(ai) == Get(Section(ai, "role_analysis"), "clarity_score", JNum(50))

GrowthLiterals == {"High", "Medium", "Low", "Unknown"}
BalanceLiterals == {"Good", "Moderate", "Demanding", "Unknown"}
RiskLiterals == {"Low", "Medium", "High", "Unknown"}

IsLiteral(j, allowed) == IsStr(j) /\ j.v \in allowed
Hashable(j) == j.t \notin {"list", "obj"}

(* run_quick_pass raises: an AttributeError or TypeError of the code, or a   *)
(* pydantic ValidationError of a schema it builds.  In code order.           *)
QuickPassRaises(company_name, ai) ==
    \* 139-143: .get on a non-dict, .lower() on a non-str name
    \/ ~IsDict(Section(ai, "understanding"))
    \/ ~IsDict(Get(Section(ai, "understanding"), "company", EmptyDict))
    \/ Truthy(CompanyField(ai, "name")) /\ ~IsStr(CompanyField(ai, "name"))
    \* 157-158: list + non-list, set() of unhashable elements
    \/ ~IsDict(Section(ai, "role_analysis"))
    \/ ~IsList(RedFlags(ai))
    \/ \E f \in Range(RedFlags(ai).v) : ~Hashable(f)
    \* 161-166: CandidateInsights
    \/ ~IsDict(Section(ai, "candidate_insights"))
    \/ ~IsStr(Get(Section(ai, "candidate_insights"), "what_they_discover", JStr("")))
    \/ ~IsLiteral(Get(Section(ai, "candidate_insights"), "growth_potential", JStr("Unknown")),
                  GrowthLiterals)
    \/ ~IsLiteral(Get(Section(ai, "candidate_insights"), "work_life_balance", JStr("Unknown")),
                  BalanceLiterals)
    \/ ~IsStr(Get(Section(ai, "candidate_insights"), "learning_opportunities", JStr("")))
    \* 168-172: RiskAssessment
    \/ ~IsDict(Section(ai, "risk_assessment"))
    \/ ~IsLiteral(Get(Section(ai, "risk_assessment"), "risk_level", JStr("Unknown")), RiskLiterals)
    \/ ~IsStrList(Get(Section(ai, "risk_assessment"), "concerns", JList(<<>>)))
    \/ ~IsStrList(Get(Section(ai, "risk_assessment"), "positives", JList(<<>>)))
    \* 176-201: LLMExplanations
    \/ \E k \in {"explanations", "experience_fit", "career_implications",
                 "risk_and_tradeoffs", "decision_guidance"} : ~IsDict(Section(ai, k))
    \/ ~IsStr(CompanyField(ai, "context"))
    \/ ~IsStr(Get(Section(ai, "experience_fit"), "required_experience", JStr("")))
    \/ ~IsStr(Explanation(ai, "role_reality", "understanding", "role_reality", JStr("")))
    \/ ~IsStr(Explanation(ai, "experience_explanation", "experience_fit", "explanation", JStr("")))
    \/ ~IsStrList(Explanation(ai, "skills_you_will_build", "career_implications",
                              "skills_you_will_build", JList(<<>>)))
    \/ ~IsStrList(Explanation(ai, "skills_you_may_miss", "career_implications",
                              "skills_you_may_miss", JList(<<>>)))
    \/ ~IsStr(Explanation(ai, "long_term_impact", "career_implications", "long_term_impact", JStr("")))
    \/ ~IsStrList(Explanation(ai, "key_concerns", "risk_and_tradeoffs", "key_concerns", JList(<<>>)))
    \/ ~IsStr(Explanation(ai, "good_for", "risk_and_tradeoffs", "good_for", JStr("")))
    \/ ~IsStr(Explanation(ai, "avoid_if", "risk_and_tradeoffs", "avoid_if", JStr("")))
    \/ ~IsStr(Explanation(ai, "reasoning", "decision_guidance", "reasoning", JStr("")))
    \/ ~IsStr(Explanation(ai, "what_to_do_instead", "decision_guidance",
                          "what_to_do_instead", JStr("")))
    \* 205-206
    \/ ~IsDict(Section(ai, "company_classification"))
    \* 216: max(0.0, role_clarity) on a non-number, TIER_SCORES.get(<unhashable>)
    \/ ~IsNum(RoleClarity(ai))
    \* 225, 234: ", ".join and List[str] on a non-str signal
    \/ \E f \in Range(RedFlags(ai).v) : ~IsStr(f)
    \* 216, 229-230: TIER_SCORES.get(<unhashable>); company_type, company_tier: str
    \/ \E cls \in {Classification(ResolveCompanyName(company_name, ai), ai)} :
            ~IsStr(cls[1]) \/ ~IsStr(cls[2])

\* the QuickPassResult of lines 138-262; local_name: company_name of line 132;
\* all_risks: list(set(risk_signals + ai_red_flags)) as a tuple of strings
run_quick_pass(local_name, ai, all_risks) ==
    Local(ResolveCompanyName(local_name, ai), LAMBDA company_name :
    Local(Classification(company_name, ai), LAMBDA cls :
    Local(calculate_confidence_score(company_name, cls[1].v, cls[2].v,
                                     all_risks, RoleClarity(ai).v), LAMBDA scored :
    LET insights_data == Section(ai, "candidate_insights")
        risk_data == Section(ai, "risk_assessment")
    IN  [company_name |-> company_name,
         company_type |-> cls[1].v,
         company_tier |-> cls[2].v,
         risk_signals_detected |-> all_risks,
         risk_trigger |-> Len(all_risks) > 0,
         resume_guidance |->
             [ats_optimized_bullets |-> Get(ai, "ats_optimized_bullets", JList(<<>>))],
         candidate_insights |->
             [what_they_discover |-> Get(insights_data, "what_they_discover", JStr("")).v,
              growth_potential |-> Get(insights_data, "growth_potential", JStr("Unknown")).v,
              work_life_balance |-> Get(insights_data, "work_life_balance", JStr("Unknown")).v,
              learning_opportunities |-> Get(insights_data, "learning_opportunities", JStr("")).v],
         risk_assessment |->
             [risk_level |-> Get(risk_data, "risk_level", JStr("Unknown")).v,
              concerns |-> StrList(Get(risk_data, "concerns", JList(<<>>))),
              positives |-> StrList(Get(risk_data, "positives", JList(<<>>)))],
         llm_explanations |->
             [company_context |-> CompanyField(ai, "context").v,
              required_experience |->
                  Get(Section(ai, "experience_fit"), "required_experience", JStr("")).v,
              role_reality |->
                  Explanation(ai, "role_reality", "understanding", "role_reality", JStr("")).v,
              experience_explanation |->
                  Explanation(ai, "experience_explanation", "experience_fit", "explanation",
                              JStr("")).v,
              skills_you_will_build |->
                  StrList(Explanation(ai, "skills_you_will_build", "career_implications",
                                      "skills_you_will_build", JList(<<>>))),
              skills_you_may_miss |->
                  StrList(Explanation(ai, "skills_you_may_miss", "career_implications",
                                      "skills_you_may_miss", JList(<<>>))),
              long_term_impact |->
                  Explanation(ai, "long_term_impact", "career_implications", "long_term_impact",
                              JStr("")).v,
              key_concerns |->
                  StrList(Explanation(ai, "key_concerns", "risk_and_tradeoffs", "key_concerns",
                                      JList(<<>>))),
              good_for |-> Explanation(ai, "good_for", "risk_and_tradeoffs", "good_for", JStr("")).v,
              avoid_if |-> Explanation(ai, "avoid_if", "risk_and_tradeoffs", "avoid_if", JStr("")).v,
              reasoning |->
                  Explanation(ai, "reasoning", "decision_guidance", "reasoning", JStr("")).v,
              what_to_do_instead |->
                  Explanation(ai, "what_to_do_instead", "decision_guidance",
                              "what_to_do_instead", JStr("")).v],
         confidence_score |-> scored.confidence,
         confidence_breakdown |-> scored.breakdown,
         final_verdict |->
             generate_final_verdict(scored.confidence, company_name, cls[2].v, all_risks,
                                    Get(insights_data, "what_they_discover", JStr("")).v),
         analysis_source |-> Get(Section(ai, "_meta"), "source", JStr("unknown")).v])))

-----------------------------------------------------------------------------
(* app/services/resume_bullets.py; bullets written by their opening words    *)

generate_resume_bullets(jd) ==
    Local(lower(jd), LAMBDA jd_lower :
        IF AnyIn(<<"backend", "api", "microservices", "database", "sql">>, jd_lower)
        THEN <<"Designed and implemented RESTful APIs", "Optimized database queries",
               "Built microservices architecture">>
        ELSE IF AnyIn(<<"frontend", "react", "angular", "vue", "ui", "ux">>, jd_lower)
        THEN <<"Developed responsive web interfaces", "Implemented component-based architecture",
               "Collaborated with UX team">>
        ELSE IF AnyIn(<<"full stack", "fullstack", "full-stack">>, jd_lower)
        THEN <<"Built end-to-end features", "Integrated third-party APIs",
               "Maintained 85% code coverage">>
        ELSE IF AnyIn(<<"data", "analytics", "machine learning", "ml", "ai">>, jd_lower)
        THEN <<"Developed data pipelines", "Built predictive models",
               "Created interactive dashboards">>
        ELSE IF AnyIn(<<"devops", "cloud", "aws", "azure", "kubernetes", "docker">>, jd_lower)
        THEN <<"Implemented CI/CD pipelines", "Managed cloud infrastructure",
               "Containerized applications">>
        ELSE IF AnyIn(<<"qa", "quality", "testing", "test automation">>, jd_lower)
        THEN <<"Developed automated test suites", "Implemented API testing framework",
               "Collaborated with development team">>
        ELSE <<"Developed and maintained scalable software components",
               "Applied problem-solving skills to design efficient algorithms",
               "Collaborated with cross-functional teams">>)

-----------------------------------------------------------------------------
(* app/services/pass2_deep.py: templates and run_deep_pass                   *)

KnownTypes == {"Product", "Service", "Startup", "Captive"}

\* COMPANY_CONTEXT.get(company_type, COMPANY_CONTEXT["Unknown"])
CompanyContext(company_type) ==
    CASE company_type = "Product" -> "Product companies build and sell their own software."
      [] company_type = "Service" -> "Service companies deliver projects for other businesses."
      [] company_type = "Startup" -> "Startups are early-stage companies with high uncertainty"
      [] company_type = "Captive" -> "Captive centers are offshore R&D units of foreign companies."
      [] OTHER -> "Unable to determine company type from the job description."

\* implications.get(company_type, implications["Unknown"]); role_clarity is not read
generate_career_implications(company_type) ==
    CASE company_type = "Product" ->
            [skills_you_will_build |-> <<"Deep product thinking and user empathy",
                                         "Ownership of features end-to-end",
                                         "Technical depth in specific domains">>,
             skills_you_may_miss |-> <<"Client-facing communication",
                                       "Broad technology exposure",
                                       "Project management across contexts">>,
             long_term_impact |-> "Strong foundation for product engineering roles."]
      [] company_type = "Service" ->
            [skills_you_will_build |-> <<"Adaptability across different projects",
                                         "Client communication and requirements gathering",
                                         "Exposure to diverse technologies">>,
             skills_you_may_miss |-> <<"Deep ownership of a single product",
                                       "Long-term architectural decisions",
                                       "Direct user feedback loops">>,
             long_term_impact |-> "Broad exposure but potentially shallow depth."]
      [] company_type = "Startup" ->
            [skills_you_will_build |-> <<"End-to-end ownership and scrappiness",
                                         "Fast learning and adaptability",
                                         "Wearing multiple hats (dev, ops, sometimes PM)">>,
             skills_you_may_miss |-> <<"Structured mentorship and code review culture",
                                       "Large-scale system design experience",
                                       "Process-driven engineering practices">>,
             long_term_impact |-> "Great for learning quickly and building a broad skill set."]
      [] company_type = "Captive" ->
            [skills_you_will_build |-> <<"Structured engineering practices",
                                         "Collaboration with global teams",
                                         "Domain expertise in parent company's area">>,
             skills_you_may_miss |-> <<"Product ownership and roadmap influence",
                                       "Startup-style scrappiness",
                                       "Local market understanding">>,
             long_term_impact |-> "Stable career path with good work-life balance."]
      [] OTHER ->
            [skills_you_will_build |-> <<"Unable to determine without more context">>,
             skills_you_may_miss |-> <<"Unable to determine without more context">>,
             long_term_impact |-> "Research the company independently before making a decision."]

generate_role_reality(jd, company_type, risk_signals) ==
    Local(lower(jd), LAMBDA jd_lower :
        IF AnyIn(<<"qa", "quality assurance", "testing", "test automation">>, jd_lower)
        THEN "This role focuses on quality assurance and testing rather than core development."
        ELSE IF AnyIn(<<"support", "l1", "l2", "incident", "helpdesk">>, jd_lower)
        THEN "This is primarily a support or operations role."
        ELSE IF AnyIn(<<"migration", "legacy", "modernization", "transformation">>, jd_lower)
        THEN "This role involves migrating or maintaining existing systems"
        ELSE IF AnyIn(<<"consultant", "advisory", "pre-sales">>, jd_lower)
        THEN "This is a client-facing consulting role."
        ELSE IF company_type = "Service" /\ Len(risk_signals) > 0
        THEN "This appears to be a client-delivery role"
        ELSE IF company_type = "Product"
        THEN "This role involves working on the company's own product."
        ELSE "Based on the job description, this appears to be a general engineering role.")

\* step 7 fallback
FresherExplanation(fresher_alignment) ==
    CASE fresher_alignment = "Good" ->
            "This role appears suitable for freshers or early-career engineers."
      [] fresher_alignment = "Poor" -> "This role targets more experienced professionals."
      [] OTHER -> "The experience requirements are unclear."

\* step 8 fallbacks
GoodFor(company_type) ==
    CASE company_type = "Product" -> "Engineers who want deep ownership, product impact, and technical depth."
      [] company_type = "Service" -> "Engineers comfortable with client work and seeking diverse project exposure."
      [] company_type = "Startup" -> "Self-starters who thrive in ambiguity and want to learn fast."
      [] company_type = "Captive" -> "Engineers seeking stability, global exposure, and work-life balance."
      [] OTHER -> "Unclear without more information about the company."

AvoidIf(company_type) ==
    CASE company_type = "Product" -> "You prefer variety across projects or want broad technology exposure."
      [] company_type = "Service" -> "You want deep product ownership or dislike project-based assignments."
      [] company_type = "Startup" -> "You need structured mentorship or job security is a priority."
      [] company_type = "Captive" -> "You want to influence product direction or prefer fast-moving environments."
      [] OTHER -> "You are risk-averse and prefer clarity before committing."

\* len(x) of a str, list or dict
PyLen(j) == IF IsDict(j) THEN Cardinality(DOMAIN j.v) ELSE Len(j.v)

\* Variant of step 11 that takes the provider's bullets only when there are
\* more than three
UsesProviderBulletsAboveThree(bullets) == Truthy(bullets) /\ PyLen(bullets) > 3

\* step 11 takes the provider's bullets
UsesProviderBullets(bullets) == Truthy(bullets) /\ PyLen(bullets) >= 3

\* run_deep_pass raises: len() of a number, a slice of a dict, or ResumeGuidance
\* rejecting what is not a list of three str
DeepPassRaises(q) ==
    LET bullets == q.resume_guidance.ats_optimized_bullets
    IN  \/ Truthy(bullets) /\ IsNum(bullets)
        \/ /\ UsesProviderBullets(bullets)
           /\ \/ ~IsList(bullets)
              \/ \E i \in 1..3 : ~IsStr(bullets.v[i])

\* step 9: the possible key_concerns lists (list(set(..)) may come in any order)
KeyConcernChoices(q) ==
    LET llm_concerns == q.llm_explanations.key_concerns
    IN  IF Len(q.risk_signals_detected) > 0
        THEN Perms(Range(llm_concerns) \cup Range(q.risk_signals_detected))
        ELSE IF Len(llm_concerns) > 0 THEN {llm_concerns}
        ELSE {<<"No major concerns detected">>}

\* s if s else fallback
StrOr(str, fallback) == IF str /= "" THEN str ELSE fallback
ListOr(list, fallback) == IF Len(list) > 0 THEN list ELSE fallback

\* lines 375-379: ExperienceFit(..)
ExperienceFit(q, required_exp, fresher_alignment) ==
    [required_experience |-> required_exp,
     fresher_alignment |-> fresher_alignment,
     explanation |-> StrOr(q.llm_explanations.experience_explanation,
                           FresherExplanation(fresher_alignment))]

\* Variant of RiskAndTradeoffs(..) that prefers the provider's risk level, as the
\* explanatory fields prefer the provider's text
RiskAndTradeoffsProviderLevel(q, decision, key_concerns) ==
    [risk_level |-> IF q.risk_assessment.risk_level /= "Unknown"
                    THEN q.risk_assessment.risk_level
                    ELSE decision.risk_level,
     key_concerns |-> key_concerns,
     good_for |-> StrOr(q.llm_explanations.good_for, GoodFor(q.company_type)),
     avoid_if |-> StrOr(q.llm_explanations.avoid_if, AvoidIf(q.company_type))]

\* lines 385-390: RiskAndTradeoffs(..)
RiskAndTradeoffs(q, decision, key_concerns) ==
    [risk_level |-> decision.risk_level,
     key_concerns |-> key_concerns,
     good_for |-> StrOr(q.llm_explanations.good_for, GoodFor(q.company_type)),
     avoid_if |-> StrOr(q.llm_explanations.avoid_if, AvoidIf(q.company_type))]

\* lines 391-395: DecisionGuidance(..)
DecisionGuidance(q, decision) ==
    [recommendation |-> decision.recommendation,
     reasoning |-> StrOr(q.llm_explanations.reasoning, decision.reasoning),
     what_to_do_instead |-> StrOr(q.llm_explanations.what_to_do_instead,
                                  decision.what_to_do_instead)]

\* the FinalAnalysisResponse; key_concerns: one of KeyConcernChoices(q)
run_deep_pass(jd, q, key_concerns) ==
    Local(extract_experience_requirement(jd), LAMBDA required_exp :
    Local(determine_fresher_alignment(required_exp, q.company_type), LAMBDA fresher_alignment :
    Local(interpret_decision(q.company_type, q.risk_signals_detected, required_exp),
          LAMBDA decision :
    LET llm == q.llm_explanations
        template_career == generate_career_implications(q.company_type)
        bullets == q.resume_guidance.ats_optimized_bullets
    IN  [understanding |->
             [company |->
                  [name |-> StrOr(q.company_name, "Unknown"),
                   type |-> IF q.company_type \in KnownTypes THEN q.company_type ELSE "Unknown",
                   context |-> CompanyContext(q.company_type)],
              role_reality |->
                  StrOr(llm.role_reality,
                        generate_role_reality(jd, q.company_type, q.risk_signals_detected))],
         experience_fit |-> ExperienceFit(q, required_exp, fresher_alignment),
         career_implications |->
             [skills_you_will_build |->
                  ListOr(llm.skills_you_will_build, template_career.skills_you_will_build),
              skills_you_may_miss |->
                  ListOr(llm.skills_you_may_miss, template_career.skills_you_may_miss),
              long_term_impact |->
                  StrOr(llm.long_term_impact, template_career.long_term_impact)],
         risk_and_tradeoffs |-> RiskAndTradeoffs(q, decision, key_concerns),
         decision_guidance |-> DecisionGuidance(q, decision),
         resume_guidance |->
             [ats_optimized_bullets |->
                  IF UsesProviderBullets(bullets)
                  THEN [i \in 1..3 |-> bullets.v[i].v]
                  ELSE generate_resume_bullets(jd)],
         confidence |-> [overall_confidence |-> q.confidence_score]])))

-----------------------------------------------------------------------------
(* Inputs: job descriptions a client posts and what the provider may answer. *)

\* payload["job_description"]; "" also stands for a payload without the key
JDTexts == {
    "",
    "Senior Software Engineer, 8-10 years, Infosys",
    "TCS is hiring freshers, 0-1 years experience, bond of 2 years required",
    "We are hiring a software engineer to build internal tools.",
    "We are hiring a senior engineer, 5-8 years, to build internal tools.",
    "Senior Software Engineer, 8-10 years of experience, Infosys Pune",
    "Flipkart needs a backend engineer with 5-8 years of experience.",
    "Wipro Technologies support desk, night shift, 1-2 years experience.",
    "About Zeta Labs, an early stage fintech building tools for merchants",
    "Goldman Sachs analyst program for graduates in Bengaluru, 0-2 years.",
    "Data entry role, refundable cheque deposit needed before joining us.",
    "Graduate trainee role; a Service Agreement of two years must be signed.",
    "Mphasis is hiring QA testers for rotational shifts and 6 days a week"
}

\* a key the provider left out
Absent == [t |-> "absent"]

\* the dict with the keys of r that are not Absent
MkObj(r) == JObj([k \in {x \in DOMAIN r : r[x] /= Absent} |-> r[k]])

JStrs(l) == JList([i \in 1..Len(l) |-> JStr(l[i])])

(* A provider answer in the shape the prompt asks for, built from a profile  *)
(* of its leaves; a leaf that is Absent is left out.                         *)
ProviderDict(p) ==
    MkObj([understanding |->
               IF p.company = Absent /\ p.name = Absent /\ p.role_reality_nested = Absent
               THEN Absent
               ELSE MkObj([company |-> IF p.company /= Absent THEN p.company
                                       ELSE IF p.name = Absent THEN Absent
                                       ELSE MkObj([name |-> p.name]),
                           role_reality |-> p.role_reality_nested]),
           company_classification |->
               MkObj([company_type |-> p.company_type, tier |-> p.tier]),
           role_analysis |->
               MkObj([clarity_score |-> p.clarity_score, red_flags |-> p.red_flags]),
           explanations |-> p.explanations,
           decision_guidance |->
               MkObj([recommendation |-> p.recommendation, reasoning |-> p.reasoning_nested]),
           ats_optimized_bullets |-> p.bullets,
           candidate_insights |->
               MkObj([what_they_discover |-> p.what_they_discover,
                      growth_potential |-> p.growth_potential,
                      work_life_balance |-> JStr("Moderate"),
                      learning_opportunities |-> JStr("Varies by team")]),
           risk_assessment |->
               MkObj([risk_level |-> p.risk_level,
                      concerns |-> p.concerns,
                      positives |-> JStrs(<<"Established company">>)])])

BaseProfile ==
    [company |-> Absent, name |-> Absent, role_reality_nested |-> Absent,
     company_type |-> JStr("Unknown"), tier |-> JStr("Unknown"),
     clarity_score |-> JNum(75), red_flags |-> JStrs(<<>>),
     explanations |-> Absent,
     recommendation |-> JStr("Apply"), reasoning_nested |-> Absent,
     bullets |-> JStrs(<<"Built REST APIs", "Cut latency by 40%", "Shipped weekly">>),
     what_they_discover |-> JStr("Bench periods are common."),
     growth_potential |-> JStr("Medium"), risk_level |-> JStr("Low"),
     concerns |-> JStrs(<<>>)]

FlatExplanations ==
    MkObj([role_reality |-> JStr("Mostly maintenance tickets."),
           reasoning |-> JStr("A fair first job."),
           what_to_do_instead |-> JStr("Also apply to product teams.")])

\* the provider's own verdict and explanations: no decision may depend on them
VerdictProfiles ==
    {[BaseProfile EXCEPT !.risk_level = x] : x \in {JStr("High"), JStr("Medium"), Absent}}
    \cup {[BaseProfile EXCEPT !.recommendation = x] : x \in {JStr("Skip"), Absent}}
    \cup {[BaseProfile EXCEPT !.explanations = FlatExplanations],
          [BaseProfile EXCEPT !.reasoning_nested = JStr("Skip this one.")],
          [BaseProfile EXCEPT !.role_reality_nested = JStr("Client support work.")],
          [BaseProfile EXCEPT !.growth_potential = JStr("High")],
          [BaseProfile EXCEPT !.what_they_discover = Absent],
          [BaseProfile EXCEPT !.concerns = JStrs(<<"A training bond is likely">>)]}
    \cup {[BaseProfile EXCEPT !.bullets = x] :
            x \in {Absent, JStrs(<<>>), JStrs(<<"Built REST APIs", "Shipped weekly">>),
                   JStrs(<<"Built REST APIs", "Cut latency by 40%", "Shipped weekly",
                           "Mentored interns">>)}}

\* well-formed answers that differ in what the pipeline may read
WellFormedProfiles ==
    {BaseProfile}
    \cup {[BaseProfile EXCEPT !.name = JStr(x)] : x \in {"Unknown", "Infosys", "Zeta Labs", "UNKNOWN"}}
    \cup {[BaseProfile EXCEPT !.company_type = JStr(x)] : x \in {"Startup", "Service", "Product", "product"}}
    \cup {[BaseProfile EXCEPT !.tier = JStr(x)] : x \in {"Tier-3", "Gold"}}
    \cup {[BaseProfile EXCEPT !.clarity_score = x] : x \in {JNum(-20), JNum(150), Absent}}
    \cup {[BaseProfile EXCEPT !.red_flags = x] :
            x \in {JStrs(<<"No mentorship">>),
                   JStrs(<<"Mandatory service", "agreement unclear">>), Absent}}

\* answers that parse as JSON but break the asked-for shape
MalformedProfiles ==
    {[BaseProfile EXCEPT !.company = JNull],
     [BaseProfile EXCEPT !.name = JNull],
     [BaseProfile EXCEPT !.name = JNum(7)],
     [BaseProfile EXCEPT !.company_type = JNull],
     [BaseProfile EXCEPT !.tier = JList(<<>>)],
     [BaseProfile EXCEPT !.clarity_score = JStr("high")],
     [BaseProfile EXCEPT !.clarity_score = JNull],
     [BaseProfile EXCEPT !.red_flags = JNull],
     [BaseProfile EXCEPT !.red_flags = JList(<<JNum(1)>>)],
     [BaseProfile EXCEPT !.growth_potential = JStr("Very High")],
     [BaseProfile EXCEPT !.risk_level = JStr("Critical")],
     [BaseProfile EXCEPT !.explanations = JNull],
     [BaseProfile EXCEPT !.bullets = JNum(3)],
     [BaseProfile EXCEPT !.bullets = JStr("none")]}

Profiles == WellFormedProfiles \cup VerdictProfiles \cup MalformedProfiles

\* exceptions of the request path (requests, raise_for_status, resp_json[..])
RequestErrors == {"ConnectionError", "Timeout", "HTTPError", "KeyError"}

Outcomes ==
    {[kind |-> "no_api_key"], [kind |-> "bad_json"]}
    \cup {[kind |-> "raise", exc |-> e] : e \in RequestErrors}
    \cup {[kind |-> "parsed", value |-> ProviderDict(pr)] : pr \in Profiles}
    \cup {[kind |-> "parsed", value |-> JList(<<>>)]}

ProviderFailed(outcome) == outcome.kind /= "parsed" \/ ~IsDict(outcome.value)

-----------------------------------------------------------------------------
(* app/main.py: POST /analyze, one request at a time.                        *)

\* requests served in a run of the model
MaxRequests == 1

NoValue == [none |-> TRUE]

\* the threads that may be inside classify_company
Callers == {"first", "second"}

classifier_vars == <<company_cache, classify, gemini_log, classify_count>>

\* _company_cache = {} and no call in progress
ClassifierAtRest ==
    /\ company_cache = <<>>
    /\ classify = [c \in Callers |-> [pc |-> "idle", company_name |-> "",
                                       result |-> NoValue, returned |-> NoValue]]
    /\ gemini_log = <<>>
    /\ classify_count = 0

\* app.ai.llm_router not imported yet
RouterAtRest ==
    router = [pc |-> "import", GEMINI_API_KEY |-> FALSE, GROQ_API_KEY |-> FALSE,
              attempts |-> <<>>, returned |-> NoValue]

Init ==
    /\ pc = "idle"
    /\ jd_text = ""
    /\ extracted = NoValue
    /\ provider_outcome = NoValue
    /\ ai_analysis = NoValue
    /\ quick = NoValue
    /\ final = NoValue
    /\ db = <<>>
    /\ served = 0
    /\ provider_calls = [invoked |-> 0, requests |-> 0]
    /\ fn_in = NoValue
    /\ fn_out = NoValue
    /\ ClassifierAtRest
    /\ RouterAtRest

\* Variant of the handler without the length check of lines 66-70
ReceiveWithoutLengthCheck(text) ==
    /\ pc = "idle"
    /\ served < MaxRequests
    /\ served' = served + 1
    /\ jd_text' = text
    /\ pc' = "provider"
    /\ extracted' = [company_name |-> extract_company_name(text),
                     risk_signals |-> detect_risk_signals(text)]
    /\ provider_outcome' = NoValue
    /\ ai_analysis' = NoValue
    /\ quick' = NoValue
    /\ final' = NoValue
    /\ provider_calls' = [invoked |-> 0, requests |-> 0]
    /\ UNCHANGED <<db, fn_in, fn_out, classifier_vars, router>>

\* main.py lines 64-70: the payload arrives; too short a text is answered 400.
\* Else run_quick_pass starts: lines 131-132, the local extraction
Receive(text) ==
    /\ pc = "idle"
    /\ served < MaxRequests
    /\ served' = served + 1
    /\ jd_text' = text
    /\ IF text = "" \/ Len(text) < 50
       THEN pc' = "rejected" /\ extracted' = NoValue
       ELSE /\ pc' = "provider"
            /\ extracted' = [company_name |-> extract_company_name(text),
                             risk_signals |-> detect_risk_signals(text)]
    /\ provider_outcome' = NoValue
    /\ ai_analysis' = NoValue
    /\ quick' = NoValue
    /\ final' = NoValue
    /\ provider_calls' = [invoked |-> 0, requests |-> 0]
    /\ UNCHANGED <<db, fn_in, fn_out, classifier_vars, router>>

\* Variant of the adapter call that sends the request a second time after a
\* failed one, as the unused router app/ai/llm_router.py falls back to a second model
CallProviderWithRetry(outcome) ==
    /\ pc = "provider"
    /\ provider_outcome' = outcome
    /\ ai_analysis' = analyze_jd_with_openai(outcome)
    /\ provider_calls' = [invoked |-> provider_calls.invoked + 1,
                          requests |-> provider_calls.requests
                                       + (IF ~SendsRequest(outcome) THEN 0
                                          ELSE IF ProviderFailed(outcome) THEN 2 ELSE 1)]
    /\ pc' = "quick"
    /\ UNCHANGED <<jd_text, extracted, quick, final, db, served, fn_in, fn_out, classifier_vars, router>>

\* run_quick_pass line 136: the one adapter call
CallProvider(outcome) ==
    /\ pc = "provider"
    /\ provider_outcome' = outcome
    /\ ai_analysis' = analyze_jd_with_openai(outcome)
    /\ provider_calls' = [invoked |-> provider_calls.invoked + 1,
                          requests |-> provider_calls.requests
                                       + (IF SendsRequest(outcome) THEN 1 ELSE 0)]
    /\ pc' = "quick"
    /\ UNCHANGED <<jd_text, extracted, quick, final, db, served, fn_in, fn_out, classifier_vars, router>>

\* run_quick_pass lines 138-262; an exception leaves the handler (HTTP 500)
QuickPass ==
    /\ pc = "quick"
    /\ IF QuickPassRaises(extracted.company_name, ai_analysis)
       THEN pc' = "raised" /\ UNCHANGED quick
       ELSE /\ \E all_risks \in
                     Perms({j.v : j \in AllRiskSet(extracted.risk_signals, ai_analysis)}) :
                  quick' = run_quick_pass(extracted.company_name, ai_analysis, all_risks)
            /\ pc' = "deep"
    /\ UNCHANGED <<jd_text, extracted, provider_outcome, ai_analysis, final, db, served,
                   provider_calls, fn_in, fn_out, classifier_vars, router>>

\* run_deep_pass
DeepPass ==
    /\ pc = "deep"
    /\ IF DeepPassRaises(quick)
       THEN pc' = "raised" /\ UNCHANGED final
       ELSE /\ \E key_concerns \in KeyConcernChoices(quick) :
                  final' = run_deep_pass(jd_text, quick, key_concerns)
            /\ pc' = "save"
    /\ UNCHANGED <<jd_text, extracted, provider_outcome, ai_analysis, quick, db, served,
                   provider_calls, fn_in, fn_out, classifier_vars, router>>

\* lines 76-95: crud.create_analysis, then the response; the columns kept are
\* the decision's
Save ==
    /\ pc = "save"
    /\ db' = Append(db, [recommendation |-> final.decision_guidance.recommendation,
                         risk_level |-> final.risk_and_tradeoffs.risk_level])
    /\ pc' = "done"
    /\ UNCHANGED <<jd_text, extracted, provider_outcome, ai_analysis, quick, final, served,
                   provider_calls, fn_in, fn_out, classifier_vars, router>>

\* the response is sent; the server waits for the next request
Respond ==
    /\ pc \in {"done", "rejected", "raised"}
    /\ pc' = "idle"
    /\ jd_text' = ""
    /\ extracted' = NoValue
    /\ provider_outcome' = NoValue
    /\ ai_analysis' = NoValue
    /\ quick' = NoValue
    /\ final' = NoValue
    /\ provider_calls' = [invoked |-> 0, requests |-> 0]
    /\ UNCHANGED <<db, served, fn_in, fn_out, classifier_vars, router>>

Next ==
    \/ \E text \in JDTexts : Receive(text)
    \/ \E outcome \in Outcomes : CallProvider(outcome)
    \/ QuickPass
    \/ DeepPass
    \/ Save
    \/ Respond

Spec == Init /\ [][Next]_vars

-----------------------------------------------------------------------------
(* Function specifications: the initial state draws the arguments of one     *)
(* function, one action applies it.  The handler stays at rest.              *)

handler_vars == <<pc, jd_text, extracted, provider_outcome, ai_analysis, quick, final,
                  db, served, provider_calls>>

HandlerAtRest ==
    /\ pc = "idle"
    /\ jd_text = ""
    /\ extracted = NoValue
    /\ provider_outcome = NoValue
    /\ ai_analysis = NoValue
    /\ quick = NoValue
    /\ final = NoValue
    /\ db = <<>>
    /\ served = 0
    /\ provider_calls = [invoked |-> 0, requests |-> 0]
    /\ ClassifierAtRest
    /\ RouterAtRest

-----------------------------------------------------------------------------
(* interpret_decision *)

\* longest risk list drawn
MaxRiskLen == 2

CompanyTypes == {"Product", "Service", "Startup", "Captive", "Unknown"}

\* keywords detect_risk_signals returns and red flags a provider may add
SignalTexts == {"bond", "cheque", "night shift", "No mentorship",
                "Mandatory service", "agreement unclear"}

\* the lists list(set(..)) can give: no element twice, any order
RiskLists ==
    UNION {Perms(S) : S \in {T \in SUBSET SignalTexts : Cardinality(T) <= MaxRiskLen}}

\* what extract_experience_requirement returns, and other descriptors
Experiences == {"0-1 Years (Fresher-friendly)", "1-2 Years (Early career)",
                "2-5 Years (Mid-level)", "5-8 Years (Senior)",
                "8+ Years (Lead/Principal)", "Not explicitly specified",
                "Principal Engineer", "5+ years", "Role level unclear"}

InitDecision ==
    /\ HandlerAtRest
    /\ fn_in \in [company_type : CompanyTypes, risks : RiskLists,
                  required_experience : Experiences]
    /\ fn_out = NoValue

Decide ==
    /\ fn_out = NoValue
    /\ fn_out' = interpret_decision(fn_in.company_type, fn_in.risks,
                                    fn_in.required_experience)
    /\ UNCHANGED <<fn_in, handler_vars, classifier_vars, router>>

SpecDecision == InitDecision /\ [][Decide]_vars

(* The rule table as the design states it.  A term is "in the risk signals"  *)
(* when it occurs in the signals written one after another with a space      *)
(* between them, lower-cased.                                                *)
SignalsText(risks) == join(" ", [i \in 1..Len(risks) |-> lower(risks[i])])

HasAny(terms, str) == \E t \in terms : In(t, str)

RuleCondition(n, company_type, risks, required_experience) ==
    CASE n = 1 -> /\ HasAny({"8+", "8-10", "lead", "principal"}, lower(required_experience))
                  /\ company_type = "Service"
      [] n = 2 -> HasAny({"bond", "service agreement", "liquidated damages",
                          "cheque", "bank guarantee", "training cost"}, SignalsText(risks))
      [] n = 3 -> HasAny({"5-8", "5+", "senior"}, lower(required_experience))
      [] n = 4 -> company_type = "Service" /\ risks /= <<>>
      [] n = 5 -> /\ company_type = "Startup"
                  /\ \/ risks /= <<>>
                     \/ HasAny({"unclear", "not specified"}, lower(required_experience))
      [] n = 6 -> company_type = "Service"
      [] n = 7 -> company_type = "Product"
      [] n = 8 -> company_type = "Captive"
      [] n = 9 -> TRUE

RuleResult(n) ==
    CASE n = 1 -> <<"Skip", "High", "This role targets senior professionals in service-based delivery.">>
      [] n = 2 -> <<"Skip", "High", "This role has concerning terms around bonds or upfront payments.">>
      [] n = 3 -> <<"Skip", "High", "This role requires 5+ years of experience.">>
      [] n = 4 -> <<"Apply with Caution", "Medium", "Service-based roles often involve project-based work">>
      [] n = 5 -> <<"Apply with Caution", "Medium", "Startups can offer great learning but also carry risks">>
      [] n = 6 -> <<"Apply with Caution", "Medium", "Service companies can provide good starting experience">>
      [] n = 7 -> <<"Apply", "Low", "Product companies generally offer better ownership and technical depth.">>
      [] n = 8 -> <<"Apply", "Low", "Captive centers of established companies often offer stability">>
      [] n = 9 -> <<"Apply", "Low", "Based on the available information, this role appears suitable">>

RulesMatching(in) ==
    {n \in 1..9 : RuleCondition(n, in.company_type, in.risks, in.required_experience)}

FirstRule(in) == MinOf(RulesMatching(in))

C4_OrderIndependent ==
    fn_out /= NoValue =>
        \A other \in Perms(Range(fn_in.risks)) :
            interpret_decision(fn_in.company_type, other, fn_in.required_experience) = fn_out

-----------------------------------------------------------------------------
(* calculate_confidence_score *)

\* most risk signals drawn
MaxRisks == 10

\* n distinct signals
SignalList(n) == [i \in 1..n |-> "signal " \o ToString(i)]

\* tiers of TIER_SCORES and tiers outside it
TierTexts == {"FAANGM", "Tier-1", "Tier-2", "Tier-3", "Unknown", "Gold", ""}

\* provider clarity scores in hundredths, below 0 and above 1 included
ClarityScores == {-250, -1, 0, 1, 49, 50, 75, 100, 101, 900}

InitConfidence ==
    /\ HandlerAtRest
    /\ fn_in \in [company_name : {"", "Infosys"},
                  company_type : {"Service", "Unknown"},
                  company_tier : TierTexts,
                  risk_signals : {SignalList(n) : n \in 0..MaxRisks},
                  role_clarity : ClarityScores]
    /\ fn_out = NoValue

Score ==
    /\ fn_out = NoValue
    /\ fn_out' = calculate_confidence_score(fn_in.company_name, fn_in.company_type,
                                            fn_in.company_tier, fn_in.risk_signals,
                                            fn_in.role_clarity)
    /\ UNCHANGED <<fn_in, handler_vars, classifier_vars, router>>

SpecConfidence == InitConfidence /\ [][Score]_vars

\* C8: the overall confidence and its four components lie in [0, 1] (0..100
\* hundredths) and the risk component is at least 0.2, for every name, tier,
\* number of risk signals and clarity score.
C8_ConfidenceInUnitInterval ==
    fn_out /= NoValue =>
        /\ fn_out.confidence \in 0..100
        /\ \A k \in DOMAIN fn_out.breakdown : fn_out.breakdown[k] \in 0..100
        /\ DOMAIN fn_out.breakdown
               = {"company_recognition", "risk_signals", "role_clarity", "company_tier"}
        /\ fn_out.breakdown.risk_signals >= 20

\* ten risk signals, no name, an unrecognised tier and a clarity score above 1
C8_Witness ==
    /\ fn_out /= NoValue
    /\ Len(fn_in.risk_signals) = 10
    /\ fn_in.company_name = ""
    /\ fn_in.company_tier = "Gold"
    /\ fn_in.role_clarity > 100
    /\ fn_out.breakdown.risk_signals = 20
    /\ fn_out.breakdown.role_clarity = 100

-----------------------------------------------------------------------------
(* override_company_classification *)

\* names the registry knows (in several spellings) and names it does not
CompanyNames == {"", "TCS", "tcs", "Tata Consultancy Services", "Wipro Limited",
                 "FLIPKART", "google", "Goldman Sachs", "Zeta Labs", "Acme Widgets",
                 "Unknown"}

\* what the provider put in company_type and tier (null: the key holds null)
LlmTypes == {JStr("Product"), JStr("Service"), JStr("Startup"), JStr("Unknown"), JNull}
LlmTiers == {JStr("FAANGM"), JStr("Tier-1"), JStr("Tier-3"), JStr("Unknown"), JNull}

InitOverride ==
    /\ HandlerAtRest
    /\ fn_in \in [company_name : CompanyNames, llm_type : LlmTypes, llm_tier : LlmTiers]
    /\ fn_out = NoValue

Override ==
    /\ fn_out = NoValue
    /\ fn_out' = override_company_classification(fn_in.company_name, fn_in.llm_type,
                                                 fn_in.llm_tier)
    /\ UNCHANGED <<fn_in, handler_vars, classifier_vars, router>>

SpecOverride == InitOverride /\ [][Override]_vars

\* C9: when get_company_classification(name) succeeds the result is the
\* registry's type and tier whatever the provider's pair; when it does not,
\* the result is the provider's pair unchanged.
C9_RegistryWinsElsePassThrough ==
    fn_out /= NoValue =>
        IF get_company_classification(fn_in.company_name) /= JNull
        THEN fn_out = <<JStr(get_company_classification(fn_in.company_name).type),
                        JStr(get_company_classification(fn_in.company_name).tier)>>
        ELSE fn_out = <<fn_in.llm_type, fn_in.llm_tier>>

\* the registry's Service / Tier-1 for TCS replaces the provider's Product / FAANGM
C9_Witness ==
    /\ fn_out /= NoValue
    /\ fn_in.company_name = "TCS"
    /\ fn_in.llm_type = JStr("Product")
    /\ fn_in.llm_tier = JStr("FAANGM")
    /\ fn_out = <<JStr("Service"), JStr("Tier-1")>>

-----------------------------------------------------------------------------
(* get_company_classification *)

LetterCases == {"lower", "upper", "title"}

Cased(c, name) ==
    CASE c = "lower" -> lower(name)
      [] c = "upper" -> upper(name)
      [] c = "title" -> title(name)

\* the canonical name and the aliases of entry e
NamesOf(e) == {COMPANY_DATABASE[e].canonical} \cup Range(COMPANY_DATABASE[e].aliases)

InitLookup ==
    /\ HandlerAtRest
    /\ fn_in \in {[entry |-> e, company_name |-> Cased(c, n)] :
                    <<e, c, n>> \in {t \in (1..NumCompanies) \X LetterCases
                                            \X UNION {NamesOf(x) : x \in 1..NumCompanies} :
                                        t[3] \in NamesOf(t[1])}}
    /\ fn_out = NoValue

Lookup ==
    /\ fn_out = NoValue
    /\ fn_out' = get_company_classification(fn_in.company_name)
    /\ UNCHANGED <<fn_in, handler_vars, classifier_vars, router>>

SpecLookup == InitLookup /\ [][Lookup]_vars

\* C10: looked up by its canonical name or by any of its aliases, in lower,
\* upper or title case, an entry is answered with its own type and tier.
C10_LookupByAnyAliasAnyCase ==
    fn_out /= NoValue =>
        fn_out = [type |-> COMPANY_DATABASE[fn_in.entry].type,
                  tier |-> COMPANY_DATABASE[fn_in.entry].tier]

\* "WIPRO" is answered Service / Tier-1
C10_Witness ==
    /\ fn_out /= NoValue
    /\ fn_in.company_name = "WIPRO"
    /\ COMPANY_DATABASE[fn_in.entry].canonical = "wipro"
    /\ fn_out = [type |-> "Service", tier |-> "Tier-1"]

-----------------------------------------------------------------------------
(* The handler: POST /analyze under Spec *)

\* the response of run_deep_pass has been built
HasFinal == final /= NoValue

\* C1: the recommendation and risk level of the FinalAnalysis are those
\* interpret_decision returns for the quick pass's company type and risk list
\* and the experience requirement extracted from the text.
C1_DecisionFieldsFromEngine ==
    HasFinal =>
        Local(interpret_decision(quick.company_type, quick.risk_signals_detected,
                                 extract_experience_requirement(jd_text)), LAMBDA decision :
            /\ final.decision_guidance.recommendation = decision.recommendation
            /\ final.risk_and_tradeoffs.risk_level = decision.risk_level)

\* the provider called the risk High, the response says Low
C1_Witness ==
    /\ HasFinal
    /\ provider_outcome.kind = "parsed"
    /\ quick.risk_assessment.risk_level = "High"
    /\ final.risk_and_tradeoffs.risk_level = "Low"
    /\ final.decision_guidance.recommendation = "Apply"

\* the provenance markers of a failed provider call
FailureMarkers ==
    {"no_api_key", "json_parse_error"} \cup {"error:" \o e : e \in RequestErrors}

\* the sections of a FinalAnalysisResponse
FinalSections == {"understanding", "experience_fit", "career_implications",
                  "risk_and_tradeoffs", "decision_guidance", "resume_guidance",
                  "confidence"}

\* no API key, an exception of the request, or text that is not JSON
CallFailed ==
    provider_outcome /= NoValue /\ provider_outcome.kind \in {"no_api_key", "raise", "bad_json"}

\* C6: after a provider call that failed entirely the adapter's result is the
\* fallback object under a failure marker, with classification Unknown/Unknown;
\* no pass raises; the role-clarity component is 0.5, analysis_source is the
\* failure marker, and the FinalAnalysis that is saved and returned is complete.
C6_ProviderFailureFallsBack ==
    CallFailed =>
        /\ \E m \in FailureMarkers : ai_analysis = _get_fallback_analysis(m)
        /\ Get(Section(ai_analysis, "company_classification"), "company_type", JNull)
               = JStr("Unknown")
        /\ Get(Section(ai_analysis, "company_classification"), "tier", JNull)
               = JStr("Unknown")
        /\ pc /= "raised"
        /\ quick /= NoValue =>
              /\ quick.confidence_breakdown.role_clarity = 50
              /\ quick.analysis_source \in FailureMarkers
        /\ pc \in {"save", "done"} =>
              /\ HasFinal
              /\ DOMAIN final = FinalSections
              /\ Len(final.resume_guidance.ats_optimized_bullets) = 3

\* a timed-out request answered with a complete analysis
C6_Witness ==
    /\ CallFailed
    /\ provider_outcome = [kind |-> "raise", exc |-> "Timeout"]
    /\ pc = "done"
    /\ HasFinal
    /\ quick.analysis_source = "error:Timeout"
    /\ quick.confidence_breakdown.role_clarity = 50

\* C7: whatever object the provider's answer parses to, no exception leaves
\* run_quick_pass or run_deep_pass.
C7_NoExceptionEscapes ==
    (provider_outcome /= NoValue /\ provider_outcome.kind = "parsed") => pc /= "raised"

-----------------------------------------------------------------------------
(* Two analyses of one text in one process, whose provider answers differ    *)
(* only in the provider's own verdict and explanation fields.                *)

TwinTexts == {
    "TCS is hiring freshers, 0-1 years experience, bond of 2 years required",
    "Flipkart needs a backend engineer with 5-8 years of experience.",
    "About Zeta Labs, an early stage fintech building tools for merchants"
}

\* profile p with the verdict and explanation leaves of profile v
WithVerdictOf(p, v) ==
    [p EXCEPT !.risk_level = v.risk_level,
              !.concerns = v.concerns,
              !.recommendation = v.recommendation,
              !.reasoning_nested = v.reasoning_nested,
              !.role_reality_nested = v.role_reality_nested,
              !.explanations = v.explanations,
              !.what_they_discover = v.what_they_discover,
              !.growth_potential = v.growth_potential,
              !.bullets = v.bullets]

Parsed(p) == [kind |-> "parsed", value |-> ProviderDict(p)]

\* what the two answers have in common
TwinProfiles ==
    {BaseProfile,
     [BaseProfile EXCEPT !.name = JStr("Infosys")],
     [BaseProfile EXCEPT !.company_type = JStr("Startup")],
     [BaseProfile EXCEPT !.company_type = JStr("Service")],
     [BaseProfile EXCEPT !.red_flags = JStrs(<<"No mentorship">>)],
     [BaseProfile EXCEPT !.red_flags = JStrs(<<"Mandatory service", "agreement unclear">>)]}

InitTwin ==
    /\ HandlerAtRest
    /\ fn_in \in {[text |-> t, left |-> Parsed(p), right |-> Parsed(WithVerdictOf(p, v))] :
                    <<t, p, v>> \in TwinTexts \X TwinProfiles \X VerdictProfiles}
    /\ fn_out = NoValue

Raised == [raised |-> TRUE]

\* the orders list(set(risk_signals + ai_red_flags)) can have
RiskOrders(risk_signals, ai) ==
    IF IsDict(Section(ai, "role_analysis")) /\ IsStrList(RedFlags(ai))
    THEN Perms({j.v : j \in AllRiskSet(risk_signals, ai)})
    ELSE {<<>>}

\* run_quick_pass then run_deep_pass: the responses possible, or Raised
Analyses(text, local, ai, all_risks) ==
    IF QuickPassRaises(local.company_name, ai) THEN {Raised}
    ELSE Local(run_quick_pass(local.company_name, ai, all_risks), LAMBDA q :
             IF DeepPassRaises(q) THEN {Raised}
             ELSE {run_deep_pass(text, q, k) : k \in KeyConcernChoices(q)})

\* both analyses; one process orders equal sets of signals equally
AnalyseTwice ==
    /\ fn_out = NoValue
    /\ \E local \in {[company_name |-> extract_company_name(fn_in.text),
                      risk_signals |-> detect_risk_signals(fn_in.text)]} :
       \E ai_left \in {analyze_jd_with_openai(fn_in.left)},
          ai_right \in {analyze_jd_with_openai(fn_in.right)} :
       \E order_left \in RiskOrders(local.risk_signals, ai_left),
          order_right \in RiskOrders(local.risk_signals, ai_right) :
          /\ Range(order_left) = Range(order_right) => order_left = order_right
          /\ \E final_left \in Analyses(fn_in.text, local, ai_left, order_left),
                final_right \in Analyses(fn_in.text, local, ai_right, order_right) :
                fn_out' = [left |-> final_left, right |-> final_right]
    /\ UNCHANGED <<fn_in, handler_vars, classifier_vars, router>>

SpecTwin == InitTwin /\ [][AnalyseTwice]_vars

\* the fields the claim is about
Verdict(response) ==
    [recommendation |-> response.decision_guidance.recommendation,
     risk_level |-> response.risk_and_tradeoffs.risk_level,
     fresher_alignment |-> response.experience_fit.fresher_alignment]

\* C5: two analyses of the same text whose provider answers differ only in
\* the provider's verdict and explanation fields give the same recommendation,
\* risk level and fresher alignment.
C5_ProviderVerdictDoesNotInterfere ==
    (fn_out /= NoValue /\ fn_out.left /= Raised /\ fn_out.right /= Raised)
        => Verdict(fn_out.left) = Verdict(fn_out.right)

\* the provider said Low to one run and High to the other, its texts reached
\* the responses, and both responses say Skip / High for the bond
C5_Witness ==
    /\ fn_out /= NoValue
    /\ fn_out.left /= Raised /\ fn_out.right /= Raised
    /\ Get(Section(fn_in.left.value, "risk_assessment"), "risk_level", JNull) = JStr("Low")
    /\ Get(Section(fn_in.right.value, "risk_assessment"), "risk_level", JNull) = JStr("High")
    /\ Verdict(fn_out.left).recommendation = "Skip"
    /\ Verdict(fn_out.right).risk_level = "High"
-----------------------------------------------------------------------------
(* The handler under Spec: resume bullets *)

\* ai_analysis.get("ats_optimized_bullets", []) of the adapter's dict
ProviderBullets == Get(ai_analysis, "ats_optimized_bullets", JList(<<>>))

\* C11: the resume bullets of every FinalAnalysis are exactly three: the
\* provider's first three when it supplied a list of at least three, otherwise
\* the three bullets of the template generate_resume_bullets selects by keyword.
C11_ExactlyThreeBullets ==
    HasFinal =>
        /\ Len(final.resume_guidance.ats_optimized_bullets) = 3
        /\ IF IsStrList(ProviderBullets) /\ Len(ProviderBullets.v) >= 3
           THEN final.resume_guidance.ats_optimized_bullets
                    = SubSeq(StrList(ProviderBullets), 1, 3)
           ELSE final.resume_guidance.ats_optimized_bullets
                    = generate_resume_bullets(jd_text)

\* the provider sent four bullets and the response carries its first three
C11_Witness ==
    /\ HasFinal
    /\ IsStrList(ProviderBullets) /\ Len(ProviderBullets.v) = 4
    /\ final.resume_guidance.ats_optimized_bullets
           = <<"Built REST APIs", "Cut latency by 40%", "Shipped weekly">>

\* the provider sent two bullets and the response carries the template's three
C11_WitnessTemplate ==
    /\ HasFinal
    /\ IsStrList(ProviderBullets) /\ Len(ProviderBullets.v) = 2
    /\ final.resume_guidance.ats_optimized_bullets = generate_resume_bullets(jd_text)
-----------------------------------------------------------------------------
(* The handler under Spec: a text and a provider answer that identify nothing *)

\* no company name was extracted from the text and no risk keyword occurs in
\* it; the provider gave no usable name, no classification and no red flags
NothingFound ==
    /\ extracted.company_name = ""
    /\ Local(lower(jd_text), LAMBDA text_lower :
            \A g \in 1..Len(RISK_KEYWORDS) : ~AnyIn(RISK_KEYWORDS[g], text_lower))
    /\ ResolveCompanyName("", ai_analysis) = ""
    /\ Classification("", ai_analysis) = <<JStr("Unknown"), JStr("Unknown")>>
    /\ RedFlags(ai_analysis) = JList(<<>>)

\* the experience requirement of the text is one rule 3 calls senior
SeniorText == AnyIn(<<"5-8", "5+", "senior">>, lower(extract_experience_requirement(jd_text)))

\* C12 as stated: whenever nothing is found, the analysis has company type
\* Unknown, no risk signals, recommendation Apply and risk level Low.
C12_NothingFoundGivesApplyLow ==
    (HasFinal /\ NothingFound) =>
        /\ quick.company_type = "Unknown"
        /\ quick.risk_signals_detected = <<>>
        /\ final.decision_guidance.recommendation = "Apply"
        /\ final.risk_and_tradeoffs.risk_level = "Low"

\* C12 amended: whenever nothing is found, the analysis has company type
\* Unknown and no risk signals; its decision is Apply / Low unless the text
\* asks for senior experience, and then it is Skip / High (rule 3).
C12_NothingFoundDefaultUnlessSenior ==
    (HasFinal /\ NothingFound) =>
        /\ quick.company_type = "Unknown"
        /\ final.understanding.company.type = "Unknown"
        /\ quick.risk_signals_detected = <<>>
        /\ IF SeniorText
           THEN /\ final.decision_guidance.recommendation = "Skip"
                /\ final.risk_and_tradeoffs.risk_level = "High"
           ELSE /\ final.decision_guidance.recommendation = "Apply"
                /\ final.risk_and_tradeoffs.risk_level = "Low"

\* the design's example text, answered Apply / Low by a provider that parsed
C12_Witness ==
    /\ HasFinal /\ NothingFound
    /\ jd_text = "We are hiring a software engineer to build internal tools."
    /\ provider_outcome.kind = "parsed"
    /\ quick.company_type = "Unknown"
    /\ final.decision_guidance.recommendation = "Apply"
    /\ final.risk_and_tradeoffs.risk_level = "Low"
-----------------------------------------------------------------------------
(* The handler under Spec: bond and payment keywords in the text *)

\* the bond-group and payment-group keywords that occur in the text
BondOrPaymentKeywordsIn(text) ==
    Local(lower(text), LAMBDA text_lower :
        {kw \in Range(RISK_KEYWORDS[1]) \cup Range(RISK_KEYWORDS[2]) : In(kw, text_lower)})

\* C13: when the text contains a bond-group or payment-group keyword, every
\* FinalAnalysis says Skip / High whatever the company type, the experience
\* requirement and the provider's answer, and every such keyword is among the
\* risk signals of the analysis.
C13_BondOrPaymentKeywordForcesSkip ==
    HasFinal =>
        Local(BondOrPaymentKeywordsIn(jd_text), LAMBDA found :
            found /= {} =>
                /\ final.decision_guidance.recommendation = "Skip"
                /\ final.risk_and_tradeoffs.risk_level = "High"
                /\ found \subseteq Range(quick.risk_signals_detected)
                /\ found \subseteq Range(final.risk_and_tradeoffs.key_concerns))

\* "Service Agreement" in capitals, no company, a provider that answered
\* Apply / Low without red flags: the response says Skip / High
C13_Witness ==
    /\ HasFinal
    /\ BondOrPaymentKeywordsIn(jd_text) = {"service agreement"}
    /\ provider_outcome.kind = "parsed"
    /\ Get(Section(ai_analysis, "decision_guidance"), "recommendation", JNull) = JStr("Apply")
    /\ Get(Section(ai_analysis, "risk_assessment"), "risk_level", JNull) = JStr("Low")
    /\ RedFlags(ai_analysis) = JList(<<>>)
    /\ quick.company_type = "Unknown"
    /\ final.decision_guidance.recommendation = "Skip"
    /\ final.risk_and_tradeoffs.risk_level = "High"
-----------------------------------------------------------------------------
(* The handler under Spec: provider calls and rejected requests *)

\* C14: in every analysis the adapter is invoked exactly once, before the quick
\* pass builds its result and before the Decision Engine runs; at most one
\* request goes out, none without a key and exactly one when the call failed
\* after sending: no retry.
C14_OneProviderCallPerAnalysis ==
    /\ provider_calls.invoked <= 1
    /\ provider_calls.requests <= provider_calls.invoked
    /\ pc = "provider" => provider_calls.invoked = 0 /\ quick = NoValue /\ final = NoValue
    /\ pc \in {"quick", "deep", "save", "done"} => provider_calls.invoked = 1
    /\ (quick /= NoValue \/ HasFinal) => provider_calls.invoked = 1
    /\ CallFailed =>
          /\ provider_calls.requests = IF provider_outcome.kind = "no_api_key" THEN 0 ELSE 1
          /\ \E m \in FailureMarkers : ai_analysis = _get_fallback_analysis(m)

\* a request that failed with a connection error: one invocation, one request,
\* and the analysis completed on the fallback object
C14_Witness ==
    /\ provider_outcome = [kind |-> "raise", exc |-> "ConnectionError"]
    /\ HasFinal
    /\ pc = "done"
    /\ provider_calls = [invoked |-> 1, requests |-> 1]

\* C15: a request whose job description is missing or shorter than 50
\* characters is rejected at once: the step that receives it ends in the
\* rejection with no provider call, no extraction, no pass result and the
\* stored analyses unchanged, and the step after it only sends the error.
C15_ShortTextRejectedBeforeWork ==
    [][/\ (pc = "idle" /\ pc' /= "idle" /\ Len(jd_text') < 50) =>
            /\ pc' = "rejected"
            /\ db' = db
            /\ provider_calls'.invoked = 0
            /\ extracted' = NoValue /\ ai_analysis' = NoValue
            /\ quick' = NoValue /\ final' = NoValue
       /\ pc = "rejected" =>
            /\ pc' = "idle"
            /\ db' = db
            /\ provider_calls'.invoked = 0
            /\ ai_analysis' = NoValue /\ quick' = NoValue /\ final' = NoValue]_vars

\* a text of 45 characters has been rejected and nothing is stored
C15_Witness ==
    /\ pc = "rejected"
    /\ jd_text = "Senior Software Engineer, 8-10 years, Infosys"
    /\ Len(jd_text) = 45
    /\ db = <<>>
    /\ provider_calls.invoked = 0
-----------------------------------------------------------------------------
(* The handler under Spec: company type and the Decision Engine *)

\* C16: a Startup with no risk signals and a text that states no experience
\* requirement (the extraction returns its default string) is decided
\* Apply with Caution / Medium.
C16_StartupUnspecifiedIsCaution ==
    (/\ HasFinal
     /\ quick.company_type = "Startup"
     /\ quick.risk_signals_detected = <<>>
     /\ extract_experience_requirement(jd_text) = "Not explicitly specified")
        => /\ final.decision_guidance.recommendation = "Apply with Caution"
           /\ final.risk_and_tradeoffs.risk_level = "Medium"

\* the type the provider supplied (a JSON value), "Unknown" when it supplied none
ProviderType ==
    Get(Section(ai_analysis, "company_classification"), "company_type", JStr("Unknown"))

\* C17 as stated: the company type the Decision Engine is given is the
\* registry's for the resolved company name, or "Unknown".
C17_TypeIsRegistryOrUnknown ==
    HasFinal =>
        quick.company_type
            = IF get_company_classification(quick.company_name) /= JNull
              THEN get_company_classification(quick.company_name).type
              ELSE "Unknown"

\* C17 amended: the company type the Decision Engine is given is the
\* registry's when the resolved company name has a registry entry, whatever
\* the provider supplied; otherwise it is the provider's, which is "Unknown"
\* when the provider supplied none or its call failed.
C17_TypeIsRegistryElseProviders ==
    HasFinal =>
        Local(get_company_classification(quick.company_name), LAMBDA known :
            /\ IF known /= JNull
               THEN quick.company_type = known.type
               ELSE Local(ProviderType, LAMBDA llm_type :
                              IsStr(llm_type) /\ llm_type.v = quick.company_type)
            /\ (CallFailed /\ known = JNull) => quick.company_type = "Unknown")

\* the provider called TCS a Startup; the Decision Engine was given Service
C17_Witness ==
    /\ HasFinal
    /\ quick.company_name = "Tcs"
    /\ ProviderType = JStr("Startup")
    /\ quick.company_type = "Service"
    /\ final.understanding.company.type = "Service"
-----------------------------------------------------------------------------
(* The handler under Spec: provenance markers, and registry against provider *)

\* the marker the design documents for each kind of failure
DocumentedMarker(outcome) ==
    CASE outcome.kind = "no_api_key" -> "no_api_key"
      [] outcome.kind = "raise" -> "error:" \o outcome.exc
      [] outcome.kind = "bad_json" -> "parse_error"

\* C18: after a failed provider call the fallback object carries the marker
\* documented for the kind of failure ("no_api_key", "error:<cause>",
\* "parse_error"), and nothing is raised to the caller.
C18_FailureKindsHaveDocumentedMarkers ==
    CallFailed =>
        /\ ai_analysis = _get_fallback_analysis(DocumentedMarker(provider_outcome))
        /\ pc /= "raised"

\* what phase 1 of extract_company_name returns when an alias is in the text
RegistryTitles == {title(COMPANY_DATABASE[e].canonical) : e \in 1..NumCompanies}

\* the provider named a company, and not "Unknown"
ProviderNamesCompany ==
    Truthy(CompanyField(ai_analysis, "name"))
        /\ lower(CompanyField(ai_analysis, "name").v) /= "unknown"

\* the type and tier the provider supplied (JSON values)
ProviderClassification ==
    <<ProviderType,
      Get(Section(ai_analysis, "company_classification"), "tier", JStr("Unknown"))>>

\* C19 as stated: when the local extractor found a registry company in the
\* text, the type and tier of the analysis are that entry's, whatever the
\* provider returned.
C19_LocalRegistryMatchWins ==
    (HasFinal /\ extracted.company_name \in RegistryTitles) =>
        /\ quick.company_type = get_company_classification(extracted.company_name).type
        /\ quick.company_tier = get_company_classification(extracted.company_name).tier

\* C19 amended: the company name of the analysis is the provider's when it
\* named one, else the locally extracted one; when that name has a registry
\* entry the type and tier are the entry's whatever type and tier the provider
\* returned, and the provider's type and tier are used only when it has none.
\* The registry company found in the text decides when the provider names none.
C19_RegistryOfResolvedNameWins ==
    HasFinal =>
        Local(get_company_classification(quick.company_name), LAMBDA known :
            /\ quick.company_name = IF ProviderNamesCompany
                                    THEN CompanyField(ai_analysis, "name").v
                                    ELSE extracted.company_name
            /\ known /= JNull =>
                  quick.company_type = known.type /\ quick.company_tier = known.tier
            /\ known = JNull =>
                  <<JStr(quick.company_type), JStr(quick.company_tier)>> = ProviderClassification
            /\ (~ProviderNamesCompany /\ extracted.company_name \in RegistryTitles) =>
                  /\ known /= JNull
                  /\ known = get_company_classification(extracted.company_name))

\* Flipkart found in the text, no name from the provider, which called the
\* company a Startup: the analysis says Product / Tier-1
C19_Witness ==
    /\ HasFinal
    /\ extracted.company_name = "Flipkart"
    /\ ~ProviderNamesCompany
    /\ ProviderType = JStr("Startup")
    /\ quick.company_type = "Product"
    /\ quick.company_tier = "Tier-1"
    /\ final.understanding.company.type = "Product"
-----------------------------------------------------------------------------
(* interpret_decision under SpecDecision: rule 2, signal by signal *)

\* at least one signal, taken alone, contains a bond term or a payment term
SomeSignalHasTerm(risks) ==
    \E i \in 1..Len(risks) :
        HasAny({"bond", "service agreement", "liquidated damages",
                "cheque", "bank guarantee", "training cost"}, lower(risks[i]))

\* C20: rule 2 decides (its reasoning is returned) exactly when rule 1 does
\* not apply and at least one individual risk signal contains a bond term or
\* a payment term; signals that only together spell a term do not trigger it.
C20_RuleTwoPerSignal ==
    fn_out /= NoValue =>
        (fn_out.reasoning = RuleResult(2)[3]
            <=> /\ ~RuleCondition(1, fn_in.company_type, fn_in.risks, fn_in.required_experience)
                /\ SomeSignalHasTerm(fn_in.risks))
-----------------------------------------------------------------------------
(* The handler under Spec: the resolved company name *)

\* C21: the company name of the quick pass is the provider's when that is
\* non-empty and not "unknown" in any letter case, else the locally extracted
\* one, else empty; an empty name gives the company-recognition component 0.3
\* and the name "Unknown" in the FinalAnalysis, any other name gives 1.0 and
\* is shown as it is.
C21_ResolvedCompanyName ==
    HasFinal =>
        Local(CompanyField(ai_analysis, "name"), LAMBDA llm_name :
            /\ quick.company_name
                   = IF IsStr(llm_name) /\ llm_name.v /= "" /\ lower(llm_name.v) /= "unknown"
                     THEN llm_name.v
                     ELSE extracted.company_name
            /\ IF quick.company_name = ""
               THEN /\ quick.confidence_breakdown.company_recognition = 30
                    /\ final.understanding.company.name = "Unknown"
               ELSE /\ quick.confidence_breakdown.company_recognition = 100
                    /\ final.understanding.company.name = quick.company_name)

\* the provider answered "UNKNOWN" for a text that names no company
C21_Witness ==
    /\ HasFinal
    /\ CompanyField(ai_analysis, "name") = JStr("UNKNOWN")
    /\ extracted.company_name = ""
    /\ quick.company_name = ""
    /\ quick.confidence_breakdown.company_recognition = 30
    /\ final.understanding.company.name = "Unknown"
-----------------------------------------------------------------------------
(* extract_company_name *)

\* names in several spellings: registry aliases, a word that only contains
\* one ("intelligent"), and a name the registry does not have
NamePool == {"Wipro", "GOOGLE", "tcs", "Goldman Sachs", "Flipkart", "db",
             "intelligent", "Zeta"}

\* texts that name two of them, and texts for the heuristics
ExtractTexts ==
    {a \o " and " \o b \o " are recruiting" : <<a, b>> \in NamePool \X NamePool}
    \cup {"About Zeta Labs, a fintech for merchants",
          "Acme Corp is seeking backend engineers",
          "Come and join Nimbus Tech this summer",
          "Orbit Systems is hiring graduates",
          "Orbit Systems is hiring. About Zeta Labs, a fintech",
          "Come join Nimbus Tech. Acme Corp is seeking engineers",
          "About Zeta Labs. Come join us at Infosys",
          "we are hiring a developer for internal tools",
          "about zeta labs, join us",
          "Credit analysts for an uber-like sapient dbms team",
          "Uber-like marketplace, About Zeta Labs",
          "Work at Tata Consultancy Services or at Amazon.com",
          ""}

InitExtract ==
    /\ HandlerAtRest
    /\ fn_in \in [jd_text : ExtractTexts]
    /\ fn_out = NoValue

Extract ==
    /\ fn_out = NoValue
    /\ fn_out' = [company_name |-> extract_company_name(fn_in.jd_text)]
    /\ UNCHANGED <<fn_in, handler_vars, classifier_vars, router>>

SpecExtract == InitExtract /\ [][Extract]_vars

\* the word occurs in the text with no letter, digit or underscore next to it
OccursAsWord(word, text) ==
    \E i \in 1..(Len(text) - Len(word) + 1) :
        /\ SubSeq(text, i, i + Len(word) - 1) = word
        /\ i = 1 \/ ~IsWord(Chr(text, i - 1))
        /\ i + Len(word) - 1 = Len(text) \/ ~IsWord(Chr(text, i + Len(word)))

\* the registry entries one of whose aliases the text names, in any letter case
EntriesNamedIn(text) ==
    Local(lower(text), LAMBDA text_lower :
        {e \in 1..NumCompanies :
            \E a \in 1..Len(COMPANY_DATABASE[e].aliases) :
                OccursAsWord(lower(COMPANY_DATABASE[e].aliases[a]), text_lower)})

\* what the four heuristics find, in the order they are tried ("" for no match)
HeuristicNames(text) ==
    <<SearchKeywordThenName(text, "About"), SearchNameThenKeyword(text, "seeking"),
      SearchKeywordThenName(text, "join"), SearchNameThenKeyword(text, "hiring")>>

\* C22: the result is the canonical name (title-cased) of the first registry
\* entry in declared order that the text names as a whole word, wherever the
\* names stand in the text; when it names none, the result of the first
\* heuristic that matches; and absent only when no heuristic matches either.
C22_FirstRegistryEntryThenHeuristics ==
    fn_out /= NoValue =>
        Local(EntriesNamedIn(fn_in.jd_text), LAMBDA named :
            IF named /= {}
            THEN fn_out.company_name = title(COMPANY_DATABASE[MinOf(named)].canonical)
            ELSE Local(HeuristicNames(fn_in.jd_text), LAMBDA found :
                     Local({k \in 1..4 : found[k] /= ""}, LAMBDA matching :
                         IF matching = {} THEN fn_out.company_name = ""
                         ELSE fn_out.company_name = found[MinOf(matching)])))

\* Wipro stands first in the text, Google first in the registry
C22_Witness ==
    /\ fn_out /= NoValue
    /\ fn_in.jd_text = "Wipro and GOOGLE are recruiting"
    /\ fn_out.company_name = "Google"

\* "is hiring" stands first in the text, "About" is tried first
C22_WitnessHeuristics ==
    /\ fn_out /= NoValue
    /\ fn_in.jd_text = "Orbit Systems is hiring. About Zeta Labs, a fintech"
    /\ fn_out.company_name = "Zeta Labs"
-----------------------------------------------------------------------------
(* run_deep_pass, steps 1-4 and the fields of the response they decide *)

\* types the quick pass can carry besides the registry's: a provider's value
\* in another letter case or an unlisted category
OtherTypes == {"product", "SERVICE", "Consulting"}

\* what extract_experience_requirement returns
ExtractedExperiences == {"0-1 Years (Fresher-friendly)", "1-2 Years (Early career)",
                         "2-5 Years (Mid-level)", "5-8 Years (Senior)",
                         "8+ Years (Lead/Principal)", "Not explicitly specified"}

InitVerdict ==
    /\ HandlerAtRest
    /\ fn_in \in [company_type : CompanyTypes \cup OtherTypes, risks : RiskLists,
                  required_experience : ExtractedExperiences]
    /\ fn_out = NoValue

DeepVerdict ==
    /\ fn_out = NoValue
    /\ \E decision \in {interpret_decision(fn_in.company_type, fn_in.risks,
                                            fn_in.required_experience)} :
           fn_out' = [fresher_alignment |->
                          determine_fresher_alignment(fn_in.required_experience,
                                                      fn_in.company_type),
                      decision |-> decision,
                      company_context |-> CompanyContext(fn_in.company_type),
                      type |-> IF fn_in.company_type \in KnownTypes
                               THEN fn_in.company_type ELSE "Unknown",
                      risk_level |-> decision.risk_level,
                      recommendation |-> decision.recommendation]
    /\ UNCHANGED <<fn_in, handler_vars, classifier_vars, router>>

SpecVerdict == InitVerdict /\ [][DeepVerdict]_vars

\* C23: the fresher alignment is decided by the extracted experience string and
\* the company type alone: Good for the 0-1 and 1-2 year strings, Poor for the
\* 2-5, 5-8 and 8+ year strings, and for the unspecified string Good for a
\* Service company and Not Applicable for any other; the risk signals and the
\* recommendation have no part in it.
C23_FresherAlignmentTable ==
    fn_out /= NoValue =>
        fn_out.fresher_alignment
            = CASE fn_in.required_experience \in {"0-1 Years (Fresher-friendly)",
                                                  "1-2 Years (Early career)"} -> "Good"
                [] fn_in.required_experience \in {"2-5 Years (Mid-level)",
                                                  "5-8 Years (Senior)",
                                                  "8+ Years (Lead/Principal)"} -> "Poor"
                [] fn_in.required_experience = "Not explicitly specified" ->
                       IF fn_in.company_type = "Service" THEN "Good" ELSE "Not Applicable"

\* Good next to Skip: a fresher role with a bond
C23_Witness ==
    /\ fn_out /= NoValue
    /\ fn_in.required_experience = "0-1 Years (Fresher-friendly)"
    /\ fn_in.risks = <<"bond">>
    /\ fn_out.fresher_alignment = "Good"
    /\ fn_out.recommendation = "Skip"

\* the Service default for an unspecified requirement
C23_WitnessServiceDefault ==
    /\ fn_out /= NoValue
    /\ fn_in.required_experience = "Not explicitly specified"
    /\ fn_in.company_type = "Service"
    /\ fn_out.fresher_alignment = "Good"
-----------------------------------------------------------------------------
(* The explanatory fields: run_quick_pass step 4.5 and run_deep_pass steps   *)
(* 5-10, applied to provider answers that carry one field in the flat        *)
(* shape, in the nested shape, in both or in neither.                        *)

\* key of explanations, and section and key of the full structure
ExplanationFields ==
    {[key |-> "role_reality", nested |-> "understanding", nested_key |-> "role_reality", list |-> FALSE],
     [key |-> "experience_explanation", nested |-> "experience_fit", nested_key |-> "explanation", list |-> FALSE],
     [key |-> "skills_you_will_build", nested |-> "career_implications", nested_key |-> "skills_you_will_build", list |-> TRUE],
     [key |-> "skills_you_may_miss", nested |-> "career_implications", nested_key |-> "skills_you_may_miss", list |-> TRUE],
     [key |-> "long_term_impact", nested |-> "career_implications", nested_key |-> "long_term_impact", list |-> FALSE],
     [key |-> "good_for", nested |-> "risk_and_tradeoffs", nested_key |-> "good_for", list |-> FALSE],
     [key |-> "avoid_if", nested |-> "risk_and_tradeoffs", nested_key |-> "avoid_if", list |-> FALSE],
     [key |-> "reasoning", nested |-> "decision_guidance", nested_key |-> "reasoning", list |-> FALSE],
     [key |-> "what_to_do_instead", nested |-> "decision_guidance", nested_key |-> "what_to_do_instead", list |-> FALSE]}

\* what a shape may hold for the field: nothing, an empty value, a value
ShapeValues(field, words) ==
    {Absent,
     IF field.list THEN JList(<<>>) ELSE JStr(""),
     IF field.list THEN JStrs(<<words>>) ELSE JStr(words)}

ExplainTexts == {
    "We are hiring a software engineer to build internal tools.",
    "TCS is hiring freshers, 0-1 years experience, bond of 2 years required"
}

\* the provider's answer: the field in either shape and a classification
ExplainedAnswer(in) ==
    MkObj([s \in {"explanations", in.field.nested, "company_classification"} |->
              IF s = "explanations"
              THEN IF in.flat = Absent THEN Absent
                   ELSE JObj([k \in {in.field.key} |-> in.flat])
              ELSE IF s = in.field.nested
              THEN IF in.nested = Absent THEN Absent
                   ELSE JObj([k \in {in.field.nested_key} |-> in.nested])
              ELSE JObj([company_type |-> JStr(in.company_type)])])

InitExplain ==
    /\ HandlerAtRest
    /\ fn_in \in {[text |-> t, field |-> f, flat |-> a, nested |-> b, company_type |-> c] :
                    <<t, f, c>> \in ExplainTexts \X ExplanationFields
                                     \X (CompanyTypes \cup {"product"}),
                    a \in UNION {ShapeValues(g, "From the flat shape.") : g \in ExplanationFields},
                    b \in UNION {ShapeValues(g, "From the nested shape.") : g \in ExplanationFields}}
    /\ fn_in.flat \in ShapeValues(fn_in.field, "From the flat shape.")
    /\ fn_in.nested \in ShapeValues(fn_in.field, "From the nested shape.")
    /\ fn_out = NoValue

\* run_quick_pass then run_deep_pass on the answer
Explain ==
    /\ fn_out = NoValue
    /\ \E local \in {[company_name |-> extract_company_name(fn_in.text),
                      risk_signals |-> detect_risk_signals(fn_in.text)]} :
       \E ai \in {analyze_jd_with_openai([kind |-> "parsed", value |-> ExplainedAnswer(fn_in)])} :
       \E all_risks \in RiskOrders(local.risk_signals, ai) :
          IF QuickPassRaises(local.company_name, ai)
          THEN fn_out' = Raised
          ELSE \E q \in {run_quick_pass(local.company_name, ai, all_risks)} :
                   IF DeepPassRaises(q)
                   THEN fn_out' = Raised
                   ELSE \E k \in KeyConcernChoices(q) :
                            fn_out' = [quick |-> q, final |-> run_deep_pass(fn_in.text, q, k)]
    /\ UNCHANGED <<fn_in, handler_vars, classifier_vars, router>>

SpecExplain == InitExplain /\ [][Explain]_vars

\* the explanatory fields of a FinalAnalysis, by their explanations key
ExplanatoryFields(response) ==
    [role_reality |-> response.understanding.role_reality,
     experience_explanation |-> response.experience_fit.explanation,
     skills_you_will_build |-> response.career_implications.skills_you_will_build,
     skills_you_may_miss |-> response.career_implications.skills_you_may_miss,
     long_term_impact |-> response.career_implications.long_term_impact,
     good_for |-> response.risk_and_tradeoffs.good_for,
     avoid_if |-> response.risk_and_tradeoffs.avoid_if,
     reasoning |-> response.decision_guidance.reasoning,
     what_to_do_instead |-> response.decision_guidance.what_to_do_instead]

\* what the templates and the Decision Engine give for the fields
TemplateFields(text, q, response) ==
    Local(interpret_decision(q.company_type, q.risk_signals_detected,
                             response.experience_fit.required_experience), LAMBDA decision :
        [role_reality |-> generate_role_reality(text, q.company_type, q.risk_signals_detected),
         experience_explanation |-> FresherExplanation(response.experience_fit.fresher_alignment),
         skills_you_will_build |-> generate_career_implications(q.company_type).skills_you_will_build,
         skills_you_may_miss |-> generate_career_implications(q.company_type).skills_you_may_miss,
         long_term_impact |-> generate_career_implications(q.company_type).long_term_impact,
         good_for |-> GoodFor(q.company_type),
         avoid_if |-> AvoidIf(q.company_type),
         reasoning |-> decision.reasoning,
         what_to_do_instead |-> decision.what_to_do_instead])

\* a shape holds a non-empty value for the field
NonEmptyIn(shape) == shape /= Absent /\ Len(shape.v) > 0

\* the value of a shape as the response carries it
Carried(shape) == IF IsList(shape) THEN StrList(shape) ELSE shape.v

\* C24: every explanatory field of the response is the provider's flat
\* explanations value when that is non-empty, else the value of the nested
\* full structure when that is non-empty, else the template's or the Decision
\* Engine's text; and no explanatory field is empty.
C24_ExplanationPriority ==
    (fn_out /= NoValue /\ fn_out /= Raised) =>
        Local(ExplanatoryFields(fn_out.final), LAMBDA shown :
        Local(TemplateFields(fn_in.text, fn_out.quick, fn_out.final), LAMBDA template :
            /\ \A k \in DOMAIN shown :
                   /\ Len(shown[k]) > 0
                   /\ k /= fn_in.field.key => shown[k] = template[k]
            /\ shown[fn_in.field.key]
                   = IF NonEmptyIn(fn_in.flat) THEN Carried(fn_in.flat)
                     ELSE IF NonEmptyIn(fn_in.nested) THEN Carried(fn_in.nested)
                     ELSE template[fn_in.field.key]))

\* both shapes hold the field: the flat one is shown
C24_Witness ==
    /\ fn_out /= NoValue /\ fn_out /= Raised
    /\ fn_in.field.key = "skills_you_may_miss"
    /\ NonEmptyIn(fn_in.flat) /\ NonEmptyIn(fn_in.nested)
    /\ fn_out.final.career_implications.skills_you_may_miss = <<"From the flat shape.">>

\* the flat shape holds an empty value: the nested one is shown
C24_WitnessNested ==
    /\ fn_out /= NoValue /\ fn_out /= Raised
    /\ fn_in.field.key = "reasoning"
    /\ fn_in.flat = JStr("") /\ NonEmptyIn(fn_in.nested)
    /\ fn_out.final.decision_guidance.reasoning = "From the nested shape."

\* neither shape holds a value: the Decision Engine's text is shown
C24_WitnessTemplate ==
    /\ fn_out /= NoValue /\ fn_out /= Raised
    /\ fn_in.field.key = "what_to_do_instead"
    /\ fn_in.flat = JStr("") /\ fn_in.nested = Absent
    /\ fn_out.final.decision_guidance.what_to_do_instead
           = "Look for companies that invest in retention"
-----------------------------------------------------------------------------
(* app/ai/company_classifier.py and app/utils/company_cache.py               *)
(* classify_company is a sequence of steps a thread takes one at a time:     *)
(* the cache lookup, the mock lookup, the external classification, and the   *)
(* save that precedes the return.                                            *)

\* confidence in hundredths
MOCK_COMPANIES ==
    [k \in {"meta", "google", "amazon", "apple", "netflix", "microsoft",
            "infosys", "tcs", "wipro"} |->
        IF k \in {"infosys", "tcs", "wipro"}
        THEN [company_type |-> "Service", tier |-> "Tier-1", confidence |-> 95]
        ELSE [company_type |-> "Product", tier |-> "FAANGM", confidence |-> 95]]

USE_MOCK_MODE == TRUE

\* _company_cache.get(company_name.lower())
get_company_from_cache(company_name) ==
    IF lower(company_name) \in DOMAIN company_cache
    THEN company_cache[lower(company_name)]
    ELSE NoValue

\* Variant that keeps the entry under the name as the caller spelled it
save_company_to_cache_as_given(company_name, data) ==
    [k \in DOMAIN company_cache \cup {company_name} |->
        IF k = company_name THEN data ELSE company_cache[k]]

\* _company_cache[company_name.lower()] = data: the dict afterwards
save_company_to_cache(company_name, data) ==
    [k \in DOMAIN company_cache \cup {lower(company_name)} |->
        IF k = lower(company_name) THEN data ELSE company_cache[k]]

\* names a caller may pass
ClassifyNames == {"Zeta Labs", "ZETA LABS", "TCS", "tcs", "Acme"}

\* what classify_company_with_gemini may do
GeminiOutcomes ==
    {[kind |-> "returns", company_type |-> "Startup", tier |-> "Tier-2"],
     [kind |-> "returns", company_type |-> "Unknown", tier |-> "Unknown"],
     [kind |-> "raises"]}

\* lines 53-73: the normalized result
GeminiResult(company_name, outcome) ==
    IF outcome.kind = "raises"
    THEN [company_name |-> company_name, company_type |-> "Unknown", tier |-> "Unknown",
          confidence |-> 0, source |-> "error"]
    ELSE [company_name |-> company_name, company_type |-> outcome.company_type,
          tier |-> outcome.tier,
          confidence |-> IF outcome.company_type /= "Unknown" THEN 95 ELSE 50,
          source |-> "gemini"]

\* classify_company calls in a run of the model
MaxCalls == 3

\* no call is in progress
NonOverlapping == \A c \in Callers : classify[c].pc \in {"idle", "returned"}

\* a thread enters classify_company(company_name)
ClassifyCall(c, company_name) ==
    /\ classify[c].pc \in {"idle", "returned"}
    /\ classify_count < MaxCalls
    /\ classify' = [classify EXCEPT ![c] = [pc |-> "lookup", company_name |-> company_name,
                                           result |-> NoValue, returned |-> NoValue]]
    /\ classify_count' = classify_count + 1
    /\ UNCHANGED <<company_cache, gemini_log, fn_in, fn_out, handler_vars, router>>

\* lines 33-35: cached = get_company_from_cache(..); if cached: return cached
CacheLookup(c) ==
    /\ classify[c].pc = "lookup"
    /\ \E cached \in {get_company_from_cache(classify[c].company_name)} :
           classify' = [classify EXCEPT ![c] =
                           IF cached /= NoValue
                           THEN [@ EXCEPT !.pc = "returned", !.returned = cached]
                           ELSE [@ EXCEPT !.pc = "mock"]]
    /\ UNCHANGED <<company_cache, gemini_log, classify_count, fn_in, fn_out, handler_vars,
                   router>>

\* lines 38-48: the mock table, up to the result
MockLookup(c) ==
    /\ classify[c].pc = "mock"
    /\ \E name \in {classify[c].company_name} :
           classify' = [classify EXCEPT ![c] =
                           IF USE_MOCK_MODE /\ lower(name) \in DOMAIN MOCK_COMPANIES
                           THEN [@ EXCEPT !.pc = "save",
                                          !.result =
                                              [company_name |-> name,
                                               company_type |-> MOCK_COMPANIES[lower(name)].company_type,
                                               tier |-> MOCK_COMPANIES[lower(name)].tier,
                                               confidence |-> MOCK_COMPANIES[lower(name)].confidence,
                                               source |-> "mock"]]
                           ELSE [@ EXCEPT !.pc = "gemini"]]
    /\ UNCHANGED <<company_cache, gemini_log, classify_count, fn_in, fn_out, handler_vars,
                   router>>

\* lines 53-73: classify_company_with_gemini(company_name), up to the result
GeminiClassify(c) ==
    /\ classify[c].pc = "gemini"
    /\ \E outcome \in GeminiOutcomes :
           classify' = [classify EXCEPT ![c] =
                           [@ EXCEPT !.pc = "save",
                                     !.result = GeminiResult(classify[c].company_name, outcome)]]
    /\ gemini_log' = Append(gemini_log, classify[c].company_name)
    /\ UNCHANGED <<company_cache, classify_count, fn_in, fn_out, handler_vars, router>>

\* lines 47-48 and 75-77: save_company_to_cache(company_name, result); return result
SaveAndReturn(c) ==
    /\ classify[c].pc = "save"
    /\ company_cache' = save_company_to_cache(classify[c].company_name, classify[c].result)
    /\ classify' = [classify EXCEPT ![c] = [@ EXCEPT !.pc = "returned",
                                                     !.returned = classify[c].result]]
    /\ UNCHANGED <<gemini_log, classify_count, fn_in, fn_out, handler_vars, router>>

\* a fresh process: nothing cached, nothing imported, no call in progress
InitAtRest ==
    /\ HandlerAtRest
    /\ fn_in = NoValue
    /\ fn_out = NoValue

\* one call at a time
NextClassifyInTurn ==
    \E c \in Callers :
        \/ \E company_name \in ClassifyNames : NonOverlapping /\ ClassifyCall(c, company_name)
        \/ CacheLookup(c)
        \/ MockLookup(c)
        \/ GeminiClassify(c)
        \/ SaveAndReturn(c)

SpecClassifyInTurn == InitAtRest /\ [][NextClassifyInTurn]_vars

\* the cache key of a caller's call
CacheKey(c) == lower(classify[c].company_name)

\* no two external classifications for one name, letter case aside
OncePerName ==
    \A i, j \in 1..Len(gemini_log) : lower(gemini_log[i]) = lower(gemini_log[j]) => i = j

\* what a call returned is the cache's entry for its name
ReturnedIsCached ==
    \A c \in Callers :
        classify[c].pc = "returned" =>
            /\ CacheKey(c) \in DOMAIN company_cache
            /\ classify[c].returned = company_cache[CacheKey(c)]

\* a step keeps every entry of the cache as it is
EntriesKept ==
    \A k \in DOMAIN company_cache :
        k \in DOMAIN company_cache' /\ company_cache'[k] = company_cache[k]

\* a call that finds its name cached returns the entry and classifies nothing;
\* a call that does not ends by writing its result, whatever it is
ReadThroughWriteOnMiss ==
    \A c \in Callers :
        /\ (classify[c].pc = "lookup" /\ classify'[c] /= classify[c]
                /\ CacheKey(c) \in DOMAIN company_cache)
               => /\ classify'[c].pc = "returned"
                  /\ classify'[c].returned = company_cache[CacheKey(c)]
                  /\ gemini_log' = gemini_log
        /\ (classify[c].pc = "save" /\ classify'[c] /= classify[c])
               => /\ CacheKey(c) \in DOMAIN company_cache'
                  /\ company_cache'[CacheKey(c)] = classify[c].result
                  /\ classify'[c].returned = classify[c].result
        /\ (classify[c].pc = "gemini" /\ classify'[c] /= classify[c])
               => CacheKey(c) \notin DOMAIN company_cache

\* C25: when classify_company calls do not overlap, the external classifier is
\* called at most once per company name, letter case aside: the first call for
\* a name writes its result to the cache (an Unknown or error result too),
\* every later call for the name in any letter case returns that entry without
\* an external call, and no entry is ever removed or replaced.
C25_CachedOncePerName ==
    /\ [](OncePerName /\ ReturnedIsCached)
    /\ [][EntriesKept /\ ReadThroughWriteOnMiss]_vars

\* a later call in another letter case gets the error result of the first
C25_Witness ==
    /\ gemini_log = <<"Zeta Labs">>
    /\ \E c \in Callers :
           /\ classify[c].pc = "returned"
           /\ classify[c].company_name = "ZETA LABS"
           /\ classify[c].returned = [company_name |-> "Zeta Labs", company_type |-> "Unknown",
                                      tier |-> "Unknown", confidence |-> 0, source |-> "error"]

\* calls of several threads, their steps interleaved
NextClassify ==
    \E c \in Callers :
        \/ \E company_name \in ClassifyNames : ClassifyCall(c, company_name)
        \/ CacheLookup(c)
        \/ MockLookup(c)
        \/ GeminiClassify(c)
        \/ SaveAndReturn(c)

SpecClassify == InitAtRest /\ [][NextClassify]_vars

\* C26: when calls for one company name interleave, the external classifier is
\* still called only once for the name, and the callers return the same
\* classification, the one left in the cache.
C26_RacingCallsAgree ==
    \A c, d \in Callers :
        (/\ c /= d
         /\ classify[c].pc = "returned"
         /\ classify[d].pc = "returned"
         /\ classify[c].company_name = classify[d].company_name)
            => /\ Cardinality({i \in 1..Len(gemini_log) :
                                  gemini_log[i] = classify[c].company_name}) <= 1
               /\ classify[c].returned = classify[d].returned
               /\ classify[c].returned = company_cache[CacheKey(c)]
-----------------------------------------------------------------------------
(* app/ai/llm_router.py: LLMRouter.analyze_jd                                *)

GEMINI_PRIMARY == "gemini-2.0-flash"
GEMINI_FALLBACK == "gemini-1.5-flash"

\* what one provider call may end in: a parsed dict; HTTPError with status 429;
\* another HTTPError; another exception of the request or of the response's
\* shape; json.JSONDecodeError re-raised by _parse_json; TypeError of
\* data["_meta"] = .. on JSON that is not an object
CallOutcomes == {"ok", "rate_limited", "http_error", "exception", "bad_json", "not_a_dict"}

\* lines 10-11: the keys are read from the environment at import
RouterImport(gemini_key, groq_key) ==
    /\ router.pc = "import"
    /\ router' = [router EXCEPT !.pc = "idle", !.GEMINI_API_KEY = gemini_key,
                                !.GROQ_API_KEY = groq_key]
    /\ UNCHANGED <<fn_in, fn_out, handler_vars, classifier_vars>>

\* line 35: analyze_jd is entered; if GEMINI_API_KEY
RouterCall ==
    /\ router.pc = "idle"
    /\ router' = [router EXCEPT !.pc = IF router.GEMINI_API_KEY THEN GEMINI_PRIMARY ELSE "groq"]
    /\ UNCHANGED <<fn_in, fn_out, handler_vars, classifier_vars>>

\* Variant that leaves Gemini after the primary model, as the class docstring
\* lists the strategy (Gemini 2.0 Flash, Groq, mock)
TryGeminiPrimaryOnly ==
    /\ router.pc \in {GEMINI_PRIMARY, GEMINI_FALLBACK}
    /\ \E outcome \in CallOutcomes :
           router' = [router EXCEPT
                         !.attempts = Append(@, [provider |-> router.pc, outcome |-> outcome]),
                         !.returned = IF outcome = "ok"
                                      THEN [source |-> "gemini-" \o router.pc] ELSE @,
                         !.pc = IF outcome = "ok" THEN "returned" ELSE "groq"]
    /\ UNCHANGED <<fn_in, fn_out, handler_vars, classifier_vars>>

\* lines 36-48: one turn of the loop over the two Gemini models
TryGemini ==
    /\ router.pc \in {GEMINI_PRIMARY, GEMINI_FALLBACK}
    /\ \E outcome \in CallOutcomes :
           router' = [router EXCEPT
                         !.attempts = Append(@, [provider |-> router.pc, outcome |-> outcome]),
                         !.returned = IF outcome = "ok"
                                      THEN [source |-> "gemini-" \o router.pc] ELSE @,
                         !.pc = IF outcome = "ok" THEN "returned"
                                ELSE IF router.pc = GEMINI_PRIMARY THEN GEMINI_FALLBACK
                                ELSE "groq"]
    /\ UNCHANGED <<fn_in, fn_out, handler_vars, classifier_vars>>

\* lines 52-60: if GROQ_API_KEY: try: return _call_groq(prompt)
TryGroq ==
    /\ router.pc = "groq"
    /\ IF router.GROQ_API_KEY
       THEN \E outcome \in CallOutcomes :
                router' = [router EXCEPT
                              !.attempts = Append(@, [provider |-> "groq", outcome |-> outcome]),
                              !.returned = IF outcome = "ok" THEN [source |-> "groq"] ELSE @,
                              !.pc = IF outcome = "ok" THEN "returned" ELSE "mock"]
       ELSE router' = [router EXCEPT !.pc = "mock"]
    /\ UNCHANGED <<fn_in, fn_out, handler_vars, classifier_vars>>

\* lines 63-65: return LLMRouter._get_mock_response(company_name)
MockResponse ==
    /\ router.pc = "mock"
    /\ router' = [router EXCEPT !.pc = "returned", !.returned = [source |-> "mock"]]
    /\ UNCHANGED <<fn_in, fn_out, handler_vars, classifier_vars>>

NextRouter ==
    \/ \E gemini_key, groq_key \in BOOLEAN : RouterImport(gemini_key, groq_key)
    \/ RouterCall
    \/ TryGemini
    \/ TryGroq
    \/ MockResponse

SpecRouter == InitAtRest /\ [][NextRouter]_vars

\* every provider call ends (requests' timeouts of 45 s and 30 s, a sleep of
\* 2 s), so a call of analyze_jd goes on taking steps
SpecRouterLive == SpecRouter /\ WF_vars(NextRouter)

\* the providers with a key, in the order of the attempts
Configured ==
    (IF router.GEMINI_API_KEY THEN <<GEMINI_PRIMARY, GEMINI_FALLBACK>> ELSE <<>>)
        \o (IF router.GROQ_API_KEY THEN <<"groq">> ELSE <<>>)

\* the attempts follow the configured providers in order, each after the
\* failure of the one before; a success ends the call with that provider's
\* answer; the mock answer comes when all configured providers were attempted
\* and failed, and only then
RouterOrder ==
    Local(router.attempts, LAMBDA attempts :
        /\ Len(attempts) <= Len(Configured)
        /\ \A i \in 1..Len(attempts) :
               /\ attempts[i].provider = Configured[i]
               /\ i < Len(attempts) => attempts[i].outcome /= "ok"
        /\ (Len(attempts) > 0 /\ attempts[Len(attempts)].outcome = "ok")
               => /\ router.pc = "returned"
                  /\ router.returned.source
                        = IF attempts[Len(attempts)].provider = "groq" THEN "groq"
                          ELSE "gemini-" \o attempts[Len(attempts)].provider
        /\ router.pc = "returned"
               => (router.returned.source = "mock"
                      <=> /\ Len(attempts) = Len(Configured)
                          /\ \A i \in 1..Len(attempts) : attempts[i].outcome /= "ok"))

C27_WitnessMock ==
    /\ router.pc = "returned"
    /\ ~router.GEMINI_API_KEY /\ router.GROQ_API_KEY
    /\ router.attempts = <<[provider |-> "groq", outcome |-> "exception"]>>
    /\ router.returned = [source |-> "mock"]
-----------------------------------------------------------------------------
(* The verdict across company types and experience requirements *)

\* C28: for every company type and risk list, when the requirement
\* "5-8 Years (Senior)" is decided Skip / High, the more senior requirement
\* "8+ Years (Lead/Principal)" is decided Skip / High too.
C28_SeniorityMonotone ==
    (/\ fn_out /= NoValue
     /\ fn_in.required_experience = "5-8 Years (Senior)"
     /\ fn_out.recommendation = "Skip" /\ fn_out.risk_level = "High")
        => Local(interpret_decision(fn_in.company_type, fn_in.risks,
                                    "8+ Years (Lead/Principal)"), LAMBDA lead :
               lead.recommendation = "Skip" /\ lead.risk_level = "High")

\* C29: the recommendation and risk level of every decision, and so of every
\* response, form one of three pairs: Apply / Low, Apply with Caution / Medium,
\* Skip / High; company types outside the five known included.
C29_ThreeVerdictPairs ==
    fn_out /= NoValue =>
        /\ <<fn_out.decision.recommendation, fn_out.decision.risk_level>>
               \in {<<"Apply", "Low">>, <<"Apply with Caution", "Medium">>, <<"Skip", "High">>}
        /\ fn_out.recommendation = fn_out.decision.recommendation
        /\ fn_out.risk_level = fn_out.decision.risk_level

\* a Service company with a risk: the middle pair
C29_Witness ==
    /\ fn_out /= NoValue
    /\ fn_in.company_type = "Service"
    /\ fn_in.risks = <<"night shift">>
    /\ fn_in.required_experience = "1-2 Years (Early career)"
    /\ fn_out.recommendation = "Apply with Caution"
    /\ fn_out.risk_level = "Medium"

\* an unlisted company type with the same risk: the default rule's pair
C29_WitnessOtherType ==
    /\ fn_out /= NoValue
    /\ fn_in.company_type = "Consulting"
    /\ fn_in.risks = <<"night shift">>
    /\ fn_out.recommendation = "Apply"
    /\ fn_out.risk_level = "Low"

\* C30: for a company type outside Product, Service, Startup and Captive the
\* response shows the type Unknown, and its decision, fresher alignment and
\* company context are those of the type "Unknown".
C30_OtherTypesActAsUnknown ==
    (fn_out /= NoValue /\ fn_in.company_type \notin {"Product", "Service", "Startup", "Captive"})
        => /\ fn_out.type = "Unknown"
           /\ fn_out.decision = interpret_decision("Unknown", fn_in.risks,
                                                    fn_in.required_experience)
           /\ fn_out.fresher_alignment
                  = determine_fresher_alignment(fn_in.required_experience, "Unknown")
           /\ fn_out.company_context = CompanyContext("Unknown")

\* "SERVICE" is not taken for Service: no caution, no fresher default
C30_Witness ==
    /\ fn_out /= NoValue
    /\ fn_in.company_type = "SERVICE"
    /\ fn_in.required_experience = "Not explicitly specified"
    /\ fn_in.risks = <<"night shift">>
    /\ fn_out.type = "Unknown"
    /\ fn_out.recommendation = "Apply"
    /\ fn_out.fresher_alignment = "Not Applicable"
====
